---------------------------- MODULE Spec2Model ----------------------------
(***************************************************************************)
(* A model of aiortc's DTLS-SRTP session (aiortc/dtls.py) and of its       *)
(* RTCPeerConnection (aiortc/rtcpeerconnection.py).                         *)
(*                                                                         *)
(* Part I models two DtlsSrtpSession objects, a server (session 1) and a   *)
(* client (session 2), bound to the two ends of a dummy_transport_pair.    *)
(* A coroutine is modelled by its position (connect_pc, run_pc); one       *)
(* action is the code that runs between two suspension points of the       *)
(* asyncio event loop.                                                     *)
(***************************************************************************)
EXTENDS Integers, Sequences, FiniteSets, TLC

VARIABLES
    \* ---- DtlsSrtpSession, one per session id
    state,              \* self.state
    encrypted,          \* self.encrypted
    closed,             \* self.closed (asyncio.Event)
    remote_fingerprint, \* self.remote_fingerprint
    ssl,                \* the OpenSSL engine behind self.ssl
    write_bio,          \* bytes OpenSSL put in self.write_bio, not yet flushed
    srtp,               \* self._rx_srtp / self._tx_srtp (absent before keying)
    data_queue,         \* self.data_queue
    rtp_queue,          \* self.rtp_queue
    connect_pc,         \* position of the connect() coroutine
    run_pc,             \* position of the __run() receive pump
    recv_pc,            \* a coroutine suspended in data.recv() / rtp.recv()
    \* ---- DummyTransport, one per session id
    rx_queue,           \* DummyTransport.rx_queue
    transport_closed,   \* DummyTransport.closed
    \* ---- bookkeeping
    ops,                \* API calls and environment events still allowed
    closes,             \* close() calls that found the session CONNECTED and returned
    call,               \* the call or coroutine step made by the last action
    \* ---- RTCPeerConnection
    isClosed,                   \* self.__isClosed
    signalingState,             \* self.__signalingState
    iceConnectionState,         \* self.__iceConnectionState
    iceGatheringState,          \* self.__iceGatheringState
    transceivers,               \* self.__transceivers, each with its transport
    sctp,                       \* self.__sctp with its transport
    currentLocalDescription,    \* self.__currentLocalDescription
    currentRemoteDescription,   \* self.__currentRemoteDescription
    gather_pc,                  \* the setLocalDescription suspended in __gather
    connect_tasks,              \* __connect coroutines scheduled, not yet run
    bringup_pc,                 \* the __connect coroutine inside its bring-up
    close_pc,                   \* position of the close() coroutine
    pc_ops,                     \* API calls still allowed
    pcall                       \* the API call made by the last action

dvars == <<state, encrypted, closed, remote_fingerprint, ssl, write_bio, srtp,
           data_queue, rtp_queue, connect_pc, run_pc, recv_pc, rx_queue,
           transport_closed, ops, closes, call>>

pvars == <<isClosed, signalingState, iceConnectionState, iceGatheringState,
           transceivers, sctp, currentLocalDescription,
           currentRemoteDescription, gather_pc, connect_tasks, bringup_pc,
           close_pc, pc_ops, pcall>>

vars == <<dvars, pvars>>

(***************************************************************************)
(* Bounds.                                                                 *)
(***************************************************************************)
MaxOps == 4
\* the same budget in the specifications that start connect() themselves
MaxSends == 2
MaxEvents == 3

Sess == {1, 2}
Peer(s) == 3 - s

\* DtlsSrtpSession.__init__: is_server; session 1 is the server of the pair
is_server(s) == s = 1

(***************************************************************************)
(* Certificates and fingerprints.  Certificate c is the one generated by   *)
(* the DtlsSrtpContext of session c; 3 is a certificate of somebody else.  *)
(***************************************************************************)
certificate_digest(c) == <<"AA:01", "BB:02", "CC:03">>[c]

LowerCase(f) == CASE f = "AA:01" -> "aa:01"
                  [] f = "BB:02" -> "bb:02"
                  [] f = "CC:03" -> "cc:03"
                  [] OTHER -> f

\* str.upper()
upper(f) == CASE f = "aa:01" -> "AA:01"
              [] f = "bb:02" -> "BB:02"
              [] f = "cc:03" -> "CC:03"
              [] OTHER -> f

(***************************************************************************)
(* Datagrams: first byte, second byte, content, and one parameter (the     *)
(* certificate carried, the payload, or the SRTP key used).                *)
(***************************************************************************)
Dgram(b0, b1, msg, x) == [b0 |-> b0, b1 |-> b1, msg |-> msg, x |-> x]

ClientHello      == Dgram(22, 254, "ClientHello", 0)
ServerFlight(c)  == Dgram(22, 254, "ServerHello", c)
ClientFlight(c)  == Dgram(22, 254, "ClientKeyExchange", c)
ServerFinished   == Dgram(20, 254, "Finished", 0)
AppData(p)       == Dgram(23, 254, "ApplicationData", p)
CloseNotify      == Dgram(21, 254, "close_notify", 0)
FatalAlert       == Dgram(21, 254, "fatal_alert", 0)

\* what data.send is given
Payloads == {1}
\* what rtp.send is given: an RTP packet (PT 96) and an RTCP sender report
RtpPackets == {Dgram(128, 96, "rtp", 0), Dgram(128, 200, "rtcp", 0)}
\* what the network may deliver besides the peer's datagrams: a fatal TLS
\* alert, an SRTP packet that fails authentication, a STUN-class datagram
\* (its key, 2, is neither of the two keys of the exported block)
Injected == {FatalAlert, Dgram(128, 96, "srtp", 2), Dgram(1, 1, "stun", 0)}

\* a datagram without payload: data[0] does not exist
EmptyDatagram == Dgram(0 - 1, 0 - 1, "empty", 0)

\* one datagram at least at each end of the three first-byte classes: DTLS
\* records the engine cannot use, SRTP and SRTCP packets protected with
\* either key of the exported block or with another key, datagrams of no
\* class, and the empty datagram
DemuxDatagrams ==
    {Dgram(20, 254, "garbage", 0), Dgram(63, 254, "garbage", 0), FatalAlert}
    \cup {Dgram(128, 96, "srtp", k) : k \in 0..2}
    \cup {Dgram(191, 200, "srtcp", k) : k \in 0..2}
    \cup {Dgram(b0, 0, "other", 0) : b0 \in {0, 19, 64, 127, 192, 255}}
    \cup {EmptyDatagram}

SetStateNone == <<>>

(***************************************************************************)
(* The OpenSSL engine.                                                     *)
(***************************************************************************)
NewSsl == [hs |-> "before", peer |-> 0, sent_shutdown |-> FALSE,
           received_shutdown |-> FALSE]

SslResult(e, out, result, data) ==
    [ssl |-> e, out |-> out, result |-> result, data |-> data]

\* lib.SSL_do_handshake(self.ssl) followed by lib.SSL_get_error
SSL_do_handshake(e, server) ==
    CASE e.hs = "done"   -> SslResult(e, <<>>, "ok", 0)
      [] e.hs = "failed" -> SslResult(e, <<>>, "error", 0)
      [] e.hs = "before" /\ ~server ->
            SslResult([e EXCEPT !.hs = "hello_sent"], <<ClientHello>>, "want_read", 0)
      [] OTHER -> SslResult(e, <<>>, "want_read", 0)

\* lib.BIO_write(self.read_bio, data) followed by lib.SSL_read(self.ssl, ...)
\* result: "pos" (plaintext returned), "zero" (shut down), "neg" (nothing)
SSL_read(e, server, own, d) ==
    CASE e.received_shutdown -> SslResult(e, <<>>, "zero", 0)
      [] d.msg = "close_notify" ->
            SslResult([e EXCEPT !.received_shutdown = TRUE], <<>>, "zero", 0)
      [] d.msg = "fatal_alert" ->
            SslResult([e EXCEPT !.hs = "failed"], <<>>, "neg", 0)
      [] e.hs = "failed" -> SslResult(e, <<>>, "neg", 0)
      [] server /\ e.hs = "before" /\ d.msg = "ClientHello" ->
            SslResult([e EXCEPT !.hs = "flight_sent"], <<ServerFlight(own)>>, "neg", 0)
      [] ~server /\ e.hs = "hello_sent" /\ d.msg = "ServerHello" ->
            SslResult([e EXCEPT !.hs = "flight_sent", !.peer = d.x],
                      <<ClientFlight(own)>>, "neg", 0)
      [] server /\ e.hs = "flight_sent" /\ d.msg = "ClientKeyExchange" ->
            SslResult([e EXCEPT !.hs = "done", !.peer = d.x],
                      <<ServerFinished>>, "neg", 0)
      [] ~server /\ e.hs = "flight_sent" /\ d.msg = "Finished" ->
            SslResult([e EXCEPT !.hs = "done"], <<>>, "neg", 0)
      [] e.hs = "done" /\ d.msg = "ApplicationData" -> SslResult(e, <<>>, "pos", d.x)
      [] OTHER -> SslResult(e, <<>>, "neg", 0)

\* lib.SSL_write(self.ssl, data, len(data)); its return value is not read
SSL_write(e, p) ==
    IF e.hs = "done" /\ ~e.sent_shutdown /\ ~e.received_shutdown
    THEN SslResult(e, <<AppData(p)>>, "pos", 0)
    ELSE SslResult(e, <<>>, "neg", 0)

\* lib.SSL_shutdown(self.ssl): the close_notify alert is written once; `alert`
\* says whether an engine still in the handshake writes one (OpenSSL 1.0
\* does, OpenSSL 1.1 refuses to)
SSL_shutdown(e, alert) ==
    IF e.sent_shutdown \/ e.hs = "failed"
    THEN SslResult(e, <<>>, "neg", 0)
    ELSE IF e.hs = "done" \/ alert
    THEN SslResult([e EXCEPT !.sent_shutdown = TRUE], <<CloseNotify>>, "zero", 0)
    ELSE SslResult(e, <<>>, "neg", 0)

(***************************************************************************)
(* SRTP.  The exported keying block holds the client write key (index 0)   *)
(* and the server write key (index 1); a key is named by its index.        *)
(***************************************************************************)
NoSrtp == [installed |-> FALSE, tx |-> 0, rx |-> 0]

\* DtlsSrtpSession.connect, "generate keying material"
SrtpKeys(server) ==
    IF server THEN [installed |-> TRUE, tx |-> 1, rx |-> 0]
              ELSE [installed |-> TRUE, tx |-> 0, rx |-> 1]

\* rtp.is_rtcp: the payload-type byte is in the RTCP range
is_rtcp(d) == d.b1 >= 192 /\ d.b1 <= 223

\* Session.protect / Session.protect_rtcp of pylibsrtp
protect(k, d) == Dgram(d.b0, d.b1, "srtp", k)
protect_rtcp(k, d) == Dgram(d.b0, d.b1, "srtcp", k)

\* Session.unprotect / Session.unprotect_rtcp: raise pylibsrtp.Error unless
\* the packet was protected, the same way, with the key this session
\* unprotects with
unprotect_ok(k, d) == d.msg = "srtp" /\ d.x = k
unprotect_rtcp_ok(k, d) == d.msg = "srtcp" /\ d.x = k
unprotect(d) == Dgram(d.b0, d.b1, "rtp", 0)
unprotect_rtcp(d) == Dgram(d.b0, d.b1, "rtcp", 0)

(***************************************************************************)
(* DtlsSrtpSession._write_ssl: one BIO_read of what is pending, sent as    *)
(* one datagram.  wb is the write BIO, net the receive queues of the two   *)
(* transports.  DummyTransport.send raises ConnectionError when its end is *)
(* closed (err).                                                           *)
(***************************************************************************)
\* a _write_ssl that leaves what is pending in the BIO
_write_ssl_keeps_pending(s, wb, net) == [wb |-> wb, net |-> net, err |-> FALSE]

_write_ssl(s, wb, net) ==
    IF wb = <<>> THEN [wb |-> wb, net |-> net, err |-> FALSE]
    ELSE IF transport_closed[s] THEN [wb |-> Tail(wb), net |-> net, err |-> TRUE]
    ELSE [wb |-> Tail(wb),
          net |-> [net EXCEPT ![Peer(s)] = Append(@, Head(wb))],
          err |-> FALSE]

\* `value` is what a recv returned, when the call is one
CallValue(s, op, result, set_state, value) ==
    [s |-> s, op |-> op, result |-> result, set_state |-> set_state,
     value |-> value]

Call(s, op, result, set_state) == CallValue(s, op, result, set_state, <<>>)

(***************************************************************************)
(* DtlsSrtpSession.connect.                                                *)
(***************************************************************************)
\* connect() returns or raises: `result` is "ok" or the exception
ConnectReturn(s, st, enc, e, wb, net, keys, pump, result, trans) ==
    /\ state' = [state EXCEPT ![s] = st]
    /\ encrypted' = [encrypted EXCEPT ![s] = enc]
    /\ ssl' = [ssl EXCEPT ![s] = e]
    /\ write_bio' = [write_bio EXCEPT ![s] = wb]
    /\ rx_queue' = net
    /\ srtp' = [srtp EXCEPT ![s] = keys]
    /\ run_pc' = [run_pc EXCEPT ![s] = pump]
    /\ connect_pc' = [connect_pc EXCEPT ![s] = "idle"]
    /\ call' = Call(s, "connect", result, trans)

\* lines 197-219 without the check of lines 191-195
ConnectFinish_unchecked(s, e, wb, net, trans) ==
    ConnectReturn(s, "CONNECTED", TRUE, e, wb, net, SrtpKeys(is_server(s)),
                  "run", "ok", Append(trans, <<"CONNECTING", "CONNECTED">>))

\* lines 191-219: the fingerprint check, the keys, CONNECTED, the pump
ConnectFinish(s, e, wb, net, trans) ==
    IF certificate_digest(e.peer) # upper(remote_fingerprint[s])
    THEN ConnectReturn(s, "CONNECTING", TRUE, e, wb, net, srtp[s], run_pc[s],
                       "DtlsError", trans)
    ELSE ConnectReturn(s, "CONNECTED", TRUE, e, wb, net, SrtpKeys(is_server(s)),
                       "run", "ok",
                       Append(trans, <<"CONNECTING", "CONNECTED">>))

\* lines 177-189: one turn of the handshake loop, up to the next suspension
ConnectLoop(s, e, wb, net, trans) ==
    IF encrypted[s] THEN ConnectFinish(s, e, wb, net, trans)
    ELSE
      LET h == SSL_do_handshake(e, is_server(s))
          f == _write_ssl(s, wb \o h.out, net)
      IN  IF f.err
          THEN ConnectReturn(s, "CONNECTING", FALSE, h.ssl, f.wb, f.net, srtp[s],
                             run_pc[s], "ConnectionError", trans)
          ELSE IF h.result = "ok"
          THEN ConnectFinish(s, h.ssl, f.wb, f.net, trans)
          ELSE IF h.result = "want_read"
          THEN /\ state' = [state EXCEPT ![s] = "CONNECTING"]
               /\ ssl' = [ssl EXCEPT ![s] = h.ssl]
               /\ write_bio' = [write_bio EXCEPT ![s] = f.wb]
               /\ rx_queue' = f.net
               /\ connect_pc' = [connect_pc EXCEPT ![s] = "recv"]
               /\ call' = Call(s, "connect", "await", trans)
               /\ UNCHANGED <<encrypted, srtp, run_pc>>
          ELSE ConnectReturn(s, "CONNECTING", FALSE, h.ssl, f.wb, f.net, srtp[s],
                             run_pc[s], "DtlsError", trans)

\* connect() is called: the assertion, CONNECTING, the first turn of the loop
ConnectCall(s) ==
    /\ connect_pc[s] = "idle"
    /\ IF state[s] # "CLOSED"
       THEN /\ call' = Call(s, "connect", "AssertionError", SetStateNone)
            /\ UNCHANGED <<state, encrypted, ssl, write_bio, rx_queue, srtp,
                           run_pc, connect_pc>>
       ELSE ConnectLoop(s, ssl[s], write_bio[s], rx_queue,
                        <<<<"CLOSED", "CONNECTING">>>>)
    /\ UNCHANGED <<closed, remote_fingerprint, data_queue, rtp_queue,
                   transport_closed>>

Connect(s) ==
    /\ ops > 0
    /\ ops' = ops - 1
    /\ ConnectCall(s)
    /\ UNCHANGED closes
    /\ UNCHANGED <<recv_pc, pvars>>

(***************************************************************************)
(* DtlsSrtpSession._recv_next.  first_completed() races transport.recv()   *)
(* against closed.wait(), and DummyTransport.recv races its queue against  *)
(* its own closed event: `arm` is the one that completed first.            *)
(***************************************************************************)
Arms(s) == (IF closed[s] THEN {"closed"} ELSE {})
           \cup (IF transport_closed[s] THEN {"error"} ELSE {})
           \cup (IF rx_queue[s] # <<>> THEN {"data"} ELSE {})

Received(exc, e, wb, net, dq, rq) ==
    [exc |-> exc, ssl |-> e, wb |-> wb, net |-> net, dq |-> dq, rq |-> rq]

\* lines 237-253: the datagram d is classified by its first byte
Demux(s, d, net) ==
    IF d = EmptyDatagram
    THEN Received("IndexError", ssl[s], write_bio[s], net, data_queue[s],
                  rtp_queue[s])
    ELSE IF d.b0 > 19 /\ d.b0 < 64
    THEN LET r == SSL_read(ssl[s], is_server(s), s, d)
             wb == write_bio[s] \o r.out
         IN  CASE r.result = "zero" ->
                    Received("ConnectionError", r.ssl, wb, net, data_queue[s], rtp_queue[s])
               [] r.result = "pos" ->
                    Received("none", r.ssl, wb, net, Append(data_queue[s], r.data),
                             rtp_queue[s])
               [] OTHER ->
                    Received("none", r.ssl, wb, net, data_queue[s], rtp_queue[s])
    ELSE IF d.b0 > 127 /\ d.b0 < 192
    THEN IF ~srtp[s].installed
         THEN Received("AttributeError", ssl[s], write_bio[s], net, data_queue[s],
                       rtp_queue[s])
         ELSE IF is_rtcp(d)
         THEN IF ~unprotect_rtcp_ok(srtp[s].rx, d)
              THEN Received("Error", ssl[s], write_bio[s], net, data_queue[s],
                            rtp_queue[s])
              ELSE Received("none", ssl[s], write_bio[s], net, data_queue[s],
                            Append(rtp_queue[s], unprotect_rtcp(d)))
         ELSE IF ~unprotect_ok(srtp[s].rx, d)
         THEN Received("Error", ssl[s], write_bio[s], net, data_queue[s], rtp_queue[s])
         ELSE Received("none", ssl[s], write_bio[s], net, data_queue[s],
                       Append(rtp_queue[s], unprotect(d)))
    ELSE Received("none", ssl[s], write_bio[s], net, data_queue[s], rtp_queue[s])

_recv_next(s, arm) ==
    IF arm = "data"
    THEN Demux(s, Head(rx_queue[s]), [rx_queue EXCEPT ![s] = Tail(@)])
    ELSE Received("ConnectionError", ssl[s], write_bio[s], rx_queue, data_queue[s],
                  rtp_queue[s])

\* connect() resumes from `await self._recv_next()`
ConnectRecv(s) ==
    /\ connect_pc[s] = "recv"
    /\ \E arm \in Arms(s) :
         LET r == _recv_next(s, arm)
         IN  /\ data_queue' = [data_queue EXCEPT ![s] = r.dq]
             /\ rtp_queue' = [rtp_queue EXCEPT ![s] = r.rq]
             /\ IF r.exc # "none"
                THEN ConnectReturn(s, state[s], encrypted[s], r.ssl, r.wb, r.net,
                                   srtp[s], run_pc[s], r.exc, SetStateNone)
                ELSE ConnectLoop(s, r.ssl, r.wb, r.net, SetStateNone)
    /\ UNCHANGED <<closed, remote_fingerprint, transport_closed, ops, closes>>
    /\ UNCHANGED <<recv_pc, pvars>>

(***************************************************************************)
(* DtlsSrtpSession.__run, the receive pump: one turn of its loop.  A       *)
(* ConnectionError ends it quietly, any other exception ends its task;     *)
(* either way the finally clause runs.                                     *)
(***************************************************************************)
Run(s) ==
    /\ run_pc[s] = "run"
    /\ \E arm \in Arms(s) :
         LET r == _recv_next(s, arm)
         IN  /\ data_queue' = [data_queue EXCEPT ![s] = r.dq]
             /\ rtp_queue' = [rtp_queue EXCEPT ![s] = r.rq]
             /\ ssl' = [ssl EXCEPT ![s] = r.ssl]
             /\ write_bio' = [write_bio EXCEPT ![s] = r.wb]
             /\ rx_queue' = r.net
             /\ IF r.exc = "none"
                THEN /\ call' = Call(s, "run", "await", SetStateNone)
                     /\ UNCHANGED <<state, closed, run_pc>>
                ELSE /\ state' = [state EXCEPT ![s] = "CLOSED"]
                     /\ closed' = [closed EXCEPT ![s] = TRUE]
                     /\ run_pc' = [run_pc EXCEPT ![s] = "done"]
                     /\ call' = Call(s, "run", r.exc,
                                     IF state[s] = "CLOSED" THEN SetStateNone
                                     ELSE <<<<state[s], "CLOSED">>>>)
    /\ UNCHANGED <<encrypted, remote_fingerprint, srtp, connect_pc,
                   transport_closed, ops, closes>>
    /\ UNCHANGED <<recv_pc, pvars>>

(***************************************************************************)
(* DtlsSrtpSession.close.                                                  *)
(***************************************************************************)
close(s) ==
    /\ IF state[s] # "CLOSED"
       THEN \E alert \in BOOLEAN :
              LET r == SSL_shutdown(ssl[s], alert)
                  f == _write_ssl(s, write_bio[s] \o r.out, rx_queue)
              IN  /\ ssl' = [ssl EXCEPT ![s] = r.ssl]
                  /\ write_bio' = [write_bio EXCEPT ![s] = f.wb]
                  /\ rx_queue' = f.net
                  /\ closed' = [closed EXCEPT ![s] = IF f.err THEN @ ELSE TRUE]
                  /\ call' = Call(s, "close",
                                  IF f.err THEN "ConnectionError" ELSE "ok",
                                  SetStateNone)
       ELSE /\ call' = Call(s, "close", "ok", SetStateNone)
            /\ UNCHANGED <<ssl, write_bio, rx_queue, closed>>
    /\ UNCHANGED <<state, encrypted, remote_fingerprint, srtp, data_queue,
                   rtp_queue, connect_pc, run_pc, transport_closed>>

Close(s) ==
    /\ ops > 0
    /\ ops' = ops - 1
    /\ close(s)
    /\ closes' = [closes EXCEPT ![s] =
                     IF state[s] = "CONNECTED" /\ call'.result = "ok" /\ @ < 2
                     THEN @ + 1 ELSE @]
    /\ UNCHANGED <<recv_pc, pvars>>

(***************************************************************************)
(* DtlsSrtpSession._send_data and _send_rtp (data.send, rtp.send).         *)
(***************************************************************************)
_send_data(s, p) ==
    /\ IF state[s] # "CONNECTED"
       THEN /\ call' = Call(s, "data.send", "ConnectionError", SetStateNone)
            /\ UNCHANGED <<ssl, write_bio, rx_queue>>
       ELSE LET r == SSL_write(ssl[s], p)
                f == _write_ssl(s, write_bio[s] \o r.out, rx_queue)
            IN  /\ ssl' = [ssl EXCEPT ![s] = r.ssl]
                /\ write_bio' = [write_bio EXCEPT ![s] = f.wb]
                /\ rx_queue' = f.net
                /\ call' = Call(s, "data.send",
                                IF f.err THEN "ConnectionError" ELSE "ok",
                                SetStateNone)
    /\ UNCHANGED <<state, encrypted, closed, remote_fingerprint, srtp, data_queue,
                   rtp_queue, connect_pc, run_pc, transport_closed>>

_send_rtp(s, d) ==
    /\ IF state[s] # "CONNECTED"
       THEN /\ call' = Call(s, "rtp.send", "ConnectionError", SetStateNone)
            /\ UNCHANGED rx_queue
       ELSE IF transport_closed[s]
       THEN /\ call' = Call(s, "rtp.send", "ConnectionError", SetStateNone)
            /\ UNCHANGED rx_queue
       ELSE /\ rx_queue' = [rx_queue EXCEPT
                              ![Peer(s)] = Append(@, IF is_rtcp(d)
                                                     THEN protect_rtcp(srtp[s].tx, d)
                                                     ELSE protect(srtp[s].tx, d))]
            /\ call' = Call(s, "rtp.send", "ok", SetStateNone)
    /\ UNCHANGED <<state, encrypted, closed, remote_fingerprint, ssl, write_bio,
                   srtp, data_queue, rtp_queue, connect_pc, run_pc,
                   transport_closed>>

SendData(s) ==
    /\ ops > 0
    /\ ops' = ops - 1
    /\ \E p \in Payloads : _send_data(s, p)
    /\ UNCHANGED closes
    /\ UNCHANGED <<recv_pc, pvars>>

SendRtp(s) ==
    /\ ops > 0
    /\ ops' = ops - 1
    /\ \E d \in RtpPackets : _send_rtp(s, d)
    /\ UNCHANGED closes
    /\ UNCHANGED <<recv_pc, pvars>>

(***************************************************************************)
(* Channel.recv (data.recv, rtp.recv).  first_completed() races            *)
(* queue.get() against closed.wait(); the call is suspended until one of   *)
(* the two has completed, and `arm` is the one whose result it returns.    *)
(***************************************************************************)
Channels == {"data", "rtp"}

RecvOp(ch) == IF ch = "data" THEN "data.recv" ELSE "rtp.recv"

\* self.queue of the channel
ChannelQueue(s, ch) == IF ch = "data" THEN data_queue[s] ELSE rtp_queue[s]

\* a recv that waits for the queue alone
RecvArms_queue_only(s, ch) ==
    IF ChannelQueue(s, ch) # <<>> THEN {"data"} ELSE {}

RecvArms(s, ch) == (IF closed[s] THEN {"closed"} ELSE {})
                   \cup (IF ChannelQueue(s, ch) # <<>> THEN {"data"} ELSE {})

\* recv() is called: the two awaitables are scheduled and the caller waits
ChannelRecv(s, ch) ==
    /\ recv_pc[s][ch] = "idle"
    /\ recv_pc' = [recv_pc EXCEPT ![s][ch] = "recv"]
    /\ call' = Call(s, RecvOp(ch), "await", SetStateNone)
    /\ UNCHANGED <<state, encrypted, closed, remote_fingerprint, ssl, write_bio,
                   srtp, data_queue, rtp_queue, connect_pc, run_pc, rx_queue,
                   transport_closed, ops, closes>>
    /\ UNCHANGED pvars

\* lines 120-123: recv() resumes with the result of the arm that completed
ChannelRecvResume(s, ch) ==
    /\ recv_pc[s][ch] = "recv"
    /\ \E arm \in RecvArms(s, ch) :
         IF arm = "closed"
         THEN /\ call' = Call(s, RecvOp(ch), "ConnectionError", SetStateNone)
              /\ UNCHANGED <<data_queue, rtp_queue>>
         ELSE /\ call' = CallValue(s, RecvOp(ch), "ok", SetStateNone,
                                   <<Head(ChannelQueue(s, ch))>>)
              /\ data_queue' = IF ch = "data"
                               THEN [data_queue EXCEPT ![s] = Tail(@)]
                               ELSE data_queue
              /\ rtp_queue' = IF ch = "rtp"
                              THEN [rtp_queue EXCEPT ![s] = Tail(@)]
                              ELSE rtp_queue
    /\ recv_pc' = [recv_pc EXCEPT ![s][ch] = "idle"]
    /\ UNCHANGED <<state, encrypted, closed, remote_fingerprint, ssl, write_bio,
                   srtp, connect_pc, run_pc, rx_queue, transport_closed, ops,
                   closes>>
    /\ UNCHANGED pvars

(***************************************************************************)
(* The environment: the network delivers a datagram the peer did not send, *)
(* or the transport is closed (DummyTransport.close).                      *)
(***************************************************************************)
Inject(s) ==
    /\ ops > 0
    /\ ops' = ops - 1
    /\ \E d \in Injected :
         /\ rx_queue' = [rx_queue EXCEPT ![s] = Append(@, d)]
         /\ call' = Call(s, "deliver", "ok", SetStateNone)
    /\ UNCHANGED <<state, encrypted, closed, remote_fingerprint, ssl, write_bio,
                   srtp, data_queue, rtp_queue, connect_pc, run_pc,
                   transport_closed, closes>>
    /\ UNCHANGED <<recv_pc, pvars>>

\* the transport of s receives a datagram from the network
Deliver(s) ==
    /\ ops > 0
    /\ ops' = ops - 1
    /\ \E d \in DemuxDatagrams :
         /\ rx_queue' = [rx_queue EXCEPT ![s] = Append(@, d)]
         /\ call' = Call(s, "deliver", "ok", SetStateNone)
    /\ UNCHANGED <<state, encrypted, closed, remote_fingerprint, ssl, write_bio,
                   srtp, data_queue, rtp_queue, connect_pc, run_pc,
                   transport_closed, closes>>
    /\ UNCHANGED <<recv_pc, pvars>>

TransportClose(s) ==
    /\ ops > 0
    /\ ~transport_closed[s]
    /\ ops' = ops - 1
    /\ transport_closed' = [transport_closed EXCEPT ![s] = TRUE]
    /\ call' = Call(s, "transport.close", "ok", SetStateNone)
    /\ UNCHANGED <<state, encrypted, closed, remote_fingerprint, ssl, write_bio,
                   srtp, data_queue, rtp_queue, connect_pc, run_pc, rx_queue,
                   closes>>
    /\ UNCHANGED <<recv_pc, pvars>>

(***************************************************************************)
(* Part II: one RTCPeerConnection.  The application calls its API; the     *)
(* remote peer is the environment, which supplies the descriptions given   *)
(* to setRemoteDescription and decides how ice.connect() and               *)
(* dtls.connect() end.  A transport is the (ICE connection, DTLS session)  *)
(* pair of a transceiver or of the SCTP transport.                         *)
(***************************************************************************)
MaxPcOps == 3

\* codec.pt is None
NoPt == 0 - 1

Codec(kind, name, clockrate, pt) ==
    [kind |-> kind, name |-> name, clockrate |-> clockrate, pt |-> pt]

MEDIA_CODECS == <<Codec("audio", "opus", 48000, NoPt),
                  Codec("audio", "PCMU", 8000, 0),
                  Codec("audio", "PCMA", 8000, 8),
                  Codec("video", "VP8", 90000, NoPt)>>

\* rtp.DYNAMIC_PAYLOAD_TYPES and rtp.FORBIDDEN_PAYLOAD_TYPES
DYNAMIC_PAYLOAD_TYPES == 96..127
FORBIDDEN_PAYLOAD_TYPES == (1..4) \cup (19..63) \cup (72..76)

Min(S) == CHOOSE x \in S : \A y \in S : x <= y
Max(S) == CHOOSE x \in S : \A y \in S : x >= y

(***************************************************************************)
(* What the application passes in.                                         *)
(***************************************************************************)
Track(id, kind) == [id |-> id, kind |-> kind]

\* two microphones, a camera, and a track of a kind that is no media kind
Tracks == {Track("mic", "audio"), Track("mic2", "audio"),
           Track("cam", "video"), Track("subtitles", "text")}

DescriptionTypes == {"offer", "answer"}

\* RTCSessionDescription(sdp, type); None is NoDescription
Description(type, media) == [type |-> type, media |-> media]
NoDescription == Description("None", <<>>)

\* an m= section of a remote description with its a= lines: the rtpmap maps
\* a PT to <<name, clockrate>>, the split form of "name/clockrate"
RemoteMedia(kind, fmt, rtpmap, candidates) ==
    [kind |-> kind, fmt |-> fmt, rtpmap |-> rtpmap, candidates |-> candidates,
     fingerprint |-> "DD:04"]

NoRtpmap == [pt \in {} |-> <<>>]

AudioRtpmap == (96 :> <<"opus", 48000>>) @@ (0 :> <<"PCMU", 8000>>)
               @@ (8 :> <<"PCMA", 8000>>)

RemoteAudio       == RemoteMedia("audio", <<96, 0, 8>>, AudioRtpmap, TRUE)
RemoteAudioNoCand == RemoteMedia("audio", <<96, 0, 8>>, AudioRtpmap, FALSE)
RemoteVideo       == RemoteMedia("video", <<97>>, 97 :> <<"VP8", 90000>>, TRUE)
RemoteData        == RemoteMedia("application", <<5000>>, NoRtpmap, TRUE)
\* no codec in common; a static PT without rtpmap line; a forbidden PT
RemoteG722        == RemoteMedia("audio", <<9>>, 9 :> <<"G722", 8000>>, TRUE)
RemoteNoRtpmap    == RemoteMedia("audio", <<0>>, NoRtpmap, TRUE)
RemoteForbidden   == RemoteMedia("audio", <<72>>, 72 :> <<"opus", 48000>>, TRUE)
\* opus on a PT that is neither forbidden nor dynamic
RemoteOpus77      == RemoteMedia("audio", <<77>>, 77 :> <<"opus", 48000>>, TRUE)
\* a PT that is no byte; an m= line the pattern of the parser does not match
\* (its media field is empty)
RemoteTooLarge    == RemoteMedia("video", <<256>>, 256 :> <<"VP8", 90000>>, TRUE)
RemoteMalformed   == RemoteMedia("", <<96>>, 96 :> <<"opus", 48000>>, TRUE)

RemoteMediaLists == {<<RemoteAudio>>, <<RemoteAudio, RemoteData>>,
                     <<RemoteVideo>>, <<RemoteOpus77>>,
                     <<RemoteVideo, RemoteG722>>, <<RemoteNoRtpmap>>,
                     <<RemoteForbidden>>, <<RemoteAudioNoCand>>,
                     <<RemoteAudio, RemoteForbidden>>,
                     <<RemoteData, RemoteTooLarge>>,
                     <<RemoteVideo, RemoteMalformed>>}

\* the peer writes a=setup:actpass in its offers and a=setup:active in its
\* answers
RemoteSetup(type) == IF type = "offer" THEN "actpass" ELSE "active"

RemoteDescriptions ==
    {[type |-> type, media |-> media, setup |-> RemoteSetup(type)] :
        type \in DescriptionTypes, media \in RemoteMediaLists}

(***************************************************************************)
(* Transports, transceivers, the SCTP transport.                           *)
(***************************************************************************)
\* RTCPeerConnection.__createTransport: a new aioice.Connection(ice_controlling)
\* and a new DtlsSrtpSession(is_server=controlling, transport=that connection);
\* id names the new connection object
__createTransport(id, controlling) ==
    [ice_id            |-> id,
     ice_controlling   |-> controlling,
     dtls_transport    |-> id,         \* dtlsSession.transport
     is_server         |-> controlling,
     local_candidates  |-> FALSE,      \* iceConnection.local_candidates non-empty
     remote_candidates |-> FALSE,      \* iceConnection.remote_candidates non-empty
     remote_fingerprint |-> "None",    \* dtlsSession.remote_fingerprint
     ice               |-> "new",      \* new, connected, failed, closed
     dtls              |-> "CLOSED",   \* dtlsSession.state
     dtls_closed       |-> FALSE,      \* dtlsSession.close() was awaited
     ice_connects      |-> 0,          \* calls of iceConnection.connect()
     dtls_connects     |-> 0,          \* calls of dtlsSession.connect()
     gathers           |-> 0,          \* calls of iceConnection.gather_candidates()
     stopped           |-> FALSE]      \* transceiver.stop() / endpoint.close()

__createTransceiver(id, controlling, kind, sender_track) ==
    [kind |-> kind, sender_track |-> sender_track, receiver_track |-> FALSE,
     codecs |-> <<>>, t |-> __createTransport(id, controlling)]

__createSctp(id, controlling) ==
    [exists |-> TRUE, endpoint_is_server |-> ~controlling,
     t |-> __createTransport(id, controlling)]

\* self.__sctp = None
NoSctp == [exists |-> FALSE, endpoint_is_server |-> FALSE,
           t |-> __createTransport(0, FALSE)]

\* the object made by the next aioice.Connection(...): the transports made
\* so far are numbered 1, 2, ...
NewId(ts, sc) == Len(ts) + (IF sc.exists THEN 1 ELSE 0) + 1

\* RTCPeerConnection.__transports over the lists ts, sc
__transports(ts, sc) ==
    [i \in 1..Len(ts) |-> ts[i].t] \o (IF sc.exists THEN <<sc.t>> ELSE <<>>)

\* Position in the generator __transports(): i in 1..Len for a transceiver,
\* 0 for the SCTP transport, -1 when it is exhausted.  The list is read when
\* the generator is resumed.
first_transport == IF Len(transceivers) > 0 THEN 1
                   ELSE IF sctp.exists THEN 0 ELSE 0 - 1

next_transport(i) == IF i = 0 THEN 0 - 1
                     ELSE IF i + 1 <= Len(transceivers) THEN i + 1
                     ELSE IF sctp.exists THEN 0 ELSE 0 - 1

Transport(i) == IF i = 0 THEN sctp.t ELSE transceivers[i].t

WithTransport(ts, i, t) == IF i = 0 THEN ts ELSE [ts EXCEPT ![i].t = t]
SctpWithTransport(sc, i, t) == IF i = 0 THEN [sc EXCEPT !.t = t] ELSE sc

\* `await iceConnection.connect()` is called on transport i of ts, sc
IceConnectCalled(ts, sc, i) ==
    [transceivers |-> IF i = 0 THEN ts
                      ELSE [ts EXCEPT ![i].t.ice_connects = @ + 1],
     sctp |-> IF i = 0 THEN [sc EXCEPT !.t.ice_connects = @ + 1] ELSE sc]

PCall(op, arg, result, sdp) ==
    [op |-> op, arg |-> arg, result |-> result, sdp |-> sdp]

(***************************************************************************)
(* SDP: transport_sdp, __createSdp, SessionDescription.parse,              *)
(* find_common_codecs.                                                     *)
(***************************************************************************)
\* the a=candidate and a=setup lines of one transport
transport_sdp(t) ==
    [candidates |-> t.local_candidates,
     setup |-> IF t.is_server THEN "actpass" ELSE "active"]

\* 'a=rtpmap:%d %s' % (codec.pt, ...) raises TypeError when codec.pt is None
__createSdp(ts, sc) ==
    [err |-> \E i \in 1..Len(ts) : \E j \in 1..Len(ts[i].codecs) :
                 ts[i].codecs[j].pt = NoPt,
     media |->
        [i \in 1..Len(ts) |->
            [kind |-> ts[i].kind,
             fmt |-> [j \in 1..Len(ts[i].codecs) |-> ts[i].codecs[j].pt],
             candidates |-> transport_sdp(ts[i].t).candidates,
             setup |-> transport_sdp(ts[i].t).setup]]
        \o (IF sc.exists
            THEN <<[kind |-> "application", fmt |-> <<5000>>,
                    candidates |-> transport_sdp(sc.t).candidates,
                    setup |-> transport_sdp(sc.t).setup]>>
            ELSE <<>>)]

\* SessionDescription.parse without `assert pt not in
\* rtp.FORBIDDEN_PAYLOAD_TYPES`
parse_ok_any_byte(media) ==
    \A k \in 1..Len(media) :
        /\ media[k].kind # ""
        /\ media[k].kind \in {"audio", "video"} =>
              \A j \in 1..Len(media[k].fmt) :
                  media[k].fmt[j] >= 0 /\ media[k].fmt[j] < 256

\* SessionDescription.parse: `assert m` on the m= line and the assertions
\* on its PTs
parse_ok(media) ==
    \A k \in 1..Len(media) :
        /\ media[k].kind # ""
        /\ media[k].kind \in {"audio", "video"} =>
              \A j \in 1..Len(media[k].fmt) :
                  /\ media[k].fmt[j] >= 0 /\ media[k].fmt[j] < 256
                  /\ media[k].fmt[j] \notin FORBIDDEN_PAYLOAD_TYPES

RECURSIVE common_from(_, _, _)
\* the loop of find_common_codecs from the k-th remote format on;
\* exc: remote_media.rtpmap[pt] raised KeyError
common_from(local_codecs, remote_media, k) ==
    IF k > Len(remote_media.fmt) THEN [exc |-> FALSE, common |-> <<>>]
    ELSE
      LET pt == remote_media.fmt[k]
      IN  IF pt \notin DOMAIN remote_media.rtpmap
          THEN [exc |-> TRUE, common |-> <<>>]
          ELSE
            LET name == remote_media.rtpmap[pt][1]
                clockrate == remote_media.rtpmap[pt][2]
                match == {j \in 1..Len(local_codecs) :
                            /\ local_codecs[j].kind = remote_media.kind
                            /\ local_codecs[j].name = name
                            /\ local_codecs[j].clockrate = clockrate}
                rest == common_from(local_codecs, remote_media, k + 1)
            IN  IF rest.exc THEN rest
                ELSE IF match = {} THEN rest
                ELSE LET codec == local_codecs[Min(match)]
                     IN  [exc |-> FALSE,
                          common |->
                            <<IF pt \in DYNAMIC_PAYLOAD_TYPES
                              THEN [codec EXCEPT !.pt = pt] ELSE codec>>
                            \o rest.common]

find_common_codecs(local_codecs, remote_media) ==
    common_from(local_codecs, remote_media, 1)

(***************************************************************************)
(* find_common_codecs applied to any local codec list and any remote       *)
(* m= section: fmt lists of up to MaxFmt payload types, each with an       *)
(* a=rtpmap line or without one.                                           *)
(***************************************************************************)
MaxFmt == 2

\* static, unassigned-range and dynamic payload types
RemotePts == {0, 8, 77, 96, 100}

\* "name/clockrate" of an a=rtpmap line, split
RtpmapLines == {<<"opus", 48000>>, <<"PCMU", 8000>>, <<"PCMA", 8000>>,
                <<"VP8", 90000>>, <<"opus", 8000>>}

RemoteFmts == UNION {[1..n -> RemotePts] : n \in 0..MaxFmt}

\* the m= sections of a kind with a fmt list: any subset of the listed
\* payload types has an a=rtpmap line
RemoteMediaInputs(kind, fmt) ==
    UNION {{RemoteMedia(kind, fmt, rtpmap, TRUE) : rtpmap \in [S -> RtpmapLines]} :
           S \in SUBSET {fmt[k] : k \in 1..Len(fmt)}}

\* the preference list, and a list in another order with its PTs assigned
LocalCodecLists == {MEDIA_CODECS,
                    <<Codec("audio", "PCMA", 8000, 8),
                      Codec("audio", "opus", 48000, 96)>>}

\* one call of find_common_codecs on a new peer connection; pcall.sdp holds
\* the returned list
FindCommonCodecs ==
    /\ pcall.op = "__init__"
    /\ \E local_codecs \in LocalCodecLists, kind \in {"audio", "video"},
          fmt \in RemoteFmts :
          \E remote_media \in RemoteMediaInputs(kind, fmt) :
             LET r == find_common_codecs(local_codecs, remote_media)
             IN  pcall' = PCall("find_common_codecs",
                                [local |-> local_codecs, remote |-> remote_media],
                                IF r.exc THEN "KeyError" ELSE "ok",
                                r.common)
    /\ UNCHANGED <<isClosed, signalingState, iceConnectionState,
                   iceGatheringState, transceivers, sctp,
                   currentLocalDescription, currentRemoteDescription,
                   gather_pc, connect_tasks, bringup_pc, close_pc, pc_ops>>
    /\ UNCHANGED dvars

(***************************************************************************)
(* The SRTP keying material.  The exported block is a sequence of          *)
(* 2 * (SRTP_KEY_LEN + SRTP_SALT_LEN) bytes; a Python slice src[a:b] of a  *)
(* buffer is clamped to its length.                                        *)
(***************************************************************************)
SRTP_KEY_LEN == 16
SRTP_SALT_LEN == 14

Slice(src, a, b) == SubSeq(src, a + 1, Min({b, Len(src)}))

\* get_srtp_key_salt with the salts taken from right after the first key
get_srtp_key_salt_salt_after_key(src, idx) ==
    LET key_start == idx * SRTP_KEY_LEN
        salt_start == SRTP_KEY_LEN + idx * SRTP_SALT_LEN
    IN  Slice(src, key_start, key_start + SRTP_KEY_LEN)
        \o Slice(src, salt_start, salt_start + SRTP_SALT_LEN)

get_srtp_key_salt(src, idx) ==
    LET key_start == idx * SRTP_KEY_LEN
        salt_start == 2 * SRTP_KEY_LEN + idx * SRTP_SALT_LEN
    IN  Slice(src, key_start, key_start + SRTP_KEY_LEN)
        \o Slice(src, salt_start, salt_start + SRTP_SALT_LEN)

\* DtlsSrtpSession.connect, lines 203-214: the keys of the outbound and of
\* the inbound SRTP session
SrtpKeyMaterial(view, server) ==
    [tx |-> get_srtp_key_salt(view, SrtpKeys(server).tx),
     rx |-> get_srtp_key_salt(view, SrtpKeys(server).rx)]

\* the blocks the exporter may produce: byte i (from 0) is
\* (stride * i + offset) mod 256
MaxStride == 7
MaxOffset == 7

KeyBlock(stride, offset) ==
    [i \in 1..(2 * (SRTP_KEY_LEN + SRTP_SALT_LEN)) |->
        (stride * (i - 1) + offset) % 256]

KeyBlocks == {KeyBlock(stride, offset) :
                 stride \in 1..MaxStride, offset \in 0..MaxOffset}

\* one call of get_srtp_key_salt; pcall.sdp holds what it returns
GetSrtpKeySalt ==
    /\ pcall.op = "__init__"
    /\ \E src \in KeyBlocks, idx \in {0, 1} :
          pcall' = PCall("get_srtp_key_salt", [src |-> src, idx |-> idx], "ok",
                         get_srtp_key_salt(src, idx))
    /\ UNCHANGED <<isClosed, signalingState, iceConnectionState,
                   iceGatheringState, transceivers, sctp,
                   currentLocalDescription, currentRemoteDescription,
                   gather_pc, connect_tasks, bringup_pc, close_pc, pc_ops>>
    /\ UNCHANGED dvars

\* the server and the client of one handshake export the same block and
\* each derives its two keys from it
ExportKeys ==
    /\ pcall.op = "__init__"
    /\ \E view \in KeyBlocks :
          pcall' = PCall("export_keying_material", view, "ok",
                         [server |-> SrtpKeyMaterial(view, TRUE),
                          client |-> SrtpKeyMaterial(view, FALSE)])
    /\ UNCHANGED <<isClosed, signalingState, iceConnectionState,
                   iceGatheringState, transceivers, sctp,
                   currentLocalDescription, currentRemoteDescription,
                   gather_pc, connect_tasks, bringup_pc, close_pc, pc_ops>>
    /\ UNCHANGED dvars

RECURSIVE offer_codecs(_, _, _)
\* createOffer, lines 215-222: the codecs of one transceiver, from the j-th
\* entry of MEDIA_CODECS on
offer_codecs(kind, j, dynamic_pt) ==
    IF j > Len(MEDIA_CODECS) THEN [codecs |-> <<>>, dynamic_pt |-> dynamic_pt]
    ELSE
      LET codec == MEDIA_CODECS[j]
      IN  IF codec.kind # kind THEN offer_codecs(kind, j + 1, dynamic_pt)
          ELSE IF codec.pt = NoPt
          THEN LET r == offer_codecs(kind, j + 1, dynamic_pt + 1)
               IN  [codecs |-> <<[codec EXCEPT !.pt = dynamic_pt]>> \o r.codecs,
                    dynamic_pt |-> r.dynamic_pt]
          ELSE LET r == offer_codecs(kind, j + 1, dynamic_pt)
               IN  [codecs |-> <<codec>> \o r.codecs, dynamic_pt |-> r.dynamic_pt]

RECURSIVE offer_all(_, _, _)
\* createOffer, lines 213-223: every transceiver from the i-th on
offer_all(ts, i, dynamic_pt) ==
    IF i > Len(ts) THEN ts
    ELSE LET r == offer_codecs(ts[i].kind, 1, dynamic_pt)
         IN  offer_all([ts EXCEPT ![i].codecs = r.codecs], i + 1, r.dynamic_pt)

(***************************************************************************)
(* The API of RTCPeerConnection.  Raise: the call raises before it has     *)
(* written anything.                                                       *)
(***************************************************************************)
Raise(op, arg, exc) ==
    /\ pcall' = PCall(op, arg, exc, NoDescription)
    /\ UNCHANGED <<isClosed, signalingState, iceConnectionState,
                   iceGatheringState, transceivers, sctp,
                   currentLocalDescription, currentRemoteDescription,
                   gather_pc, connect_tasks, bringup_pc, close_pc>>

\* addTrack without the loop of lines 139-145: a transceiver per track
addTrack_always_creates(track) ==
    IF isClosed THEN Raise("addTrack", track.id, "InvalidStateError")
    ELSE IF track.kind \notin {"audio", "video"}
    THEN Raise("addTrack", track.id, "InternalError")
    ELSE IF \E i \in 1..Len(transceivers) : transceivers[i].sender_track = track.id
    THEN Raise("addTrack", track.id, "InvalidAccessError")
    ELSE /\ transceivers' =
              Append(transceivers,
                     __createTransceiver(NewId(transceivers, sctp), TRUE,
                                         track.kind, track.id))
         /\ pcall' = PCall("addTrack", track.id, "ok", NoDescription)
         /\ UNCHANGED <<isClosed, signalingState, iceConnectionState,
                        iceGatheringState, sctp, currentLocalDescription,
                        currentRemoteDescription, gather_pc, connect_tasks,
                        bringup_pc, close_pc>>

\* addTrack without the loop of lines 135-137
addTrack_no_duplicate_check(track) ==
    IF isClosed THEN Raise("addTrack", track.id, "InvalidStateError")
    ELSE IF track.kind \notin {"audio", "video"}
    THEN Raise("addTrack", track.id, "InternalError")
    ELSE
      LET same == {i \in 1..Len(transceivers) : transceivers[i].kind = track.kind}
      IN  IF same # {} /\ transceivers[Min(same)].sender_track # "None"
          THEN Raise("addTrack", track.id, "InternalError")
          ELSE /\ transceivers' =
                    IF same # {}
                    THEN [transceivers EXCEPT ![Min(same)].sender_track = track.id]
                    ELSE Append(transceivers,
                                __createTransceiver(NewId(transceivers, sctp), TRUE,
                                                    track.kind, track.id))
               /\ pcall' = PCall("addTrack", track.id, "ok", NoDescription)
               /\ UNCHANGED <<isClosed, signalingState, iceConnectionState,
                              iceGatheringState, sctp, currentLocalDescription,
                              currentRemoteDescription, gather_pc, connect_tasks,
                              bringup_pc, close_pc>>

addTrack(track) ==
    IF isClosed THEN Raise("addTrack", track.id, "InvalidStateError")
    ELSE IF track.kind \notin {"audio", "video"}
    THEN Raise("addTrack", track.id, "InternalError")
    ELSE IF \E i \in 1..Len(transceivers) : transceivers[i].sender_track = track.id
    THEN Raise("addTrack", track.id, "InvalidAccessError")
    ELSE
      LET same == {i \in 1..Len(transceivers) : transceivers[i].kind = track.kind}
      IN  IF same # {} /\ transceivers[Min(same)].sender_track # "None"
          THEN Raise("addTrack", track.id, "InternalError")
          ELSE /\ transceivers' =
                    IF same # {}
                    THEN [transceivers EXCEPT ![Min(same)].sender_track = track.id]
                    ELSE Append(transceivers,
                                __createTransceiver(NewId(transceivers, sctp), TRUE,
                                                    track.kind, track.id))
               /\ pcall' = PCall("addTrack", track.id, "ok", NoDescription)
               /\ UNCHANGED <<isClosed, signalingState, iceConnectionState,
                              iceGatheringState, sctp, currentLocalDescription,
                              currentRemoteDescription, gather_pc, connect_tasks,
                              bringup_pc, close_pc>>

AddTrack ==
    /\ pc_ops > 0
    /\ pc_ops' = pc_ops - 1
    /\ \E track \in Tracks : addTrack(track)
    /\ UNCHANGED dvars

createDataChannel ==
    /\ sctp' = IF ~sctp.exists
               THEN __createSctp(NewId(transceivers, sctp), TRUE) ELSE sctp
    /\ pcall' = PCall("createDataChannel", "", "ok", NoDescription)
    /\ UNCHANGED <<isClosed, signalingState, iceConnectionState,
                   iceGatheringState, transceivers, currentLocalDescription,
                   currentRemoteDescription, gather_pc, connect_tasks,
                   bringup_pc, close_pc>>

CreateDataChannel ==
    /\ pc_ops > 0
    /\ pc_ops' = pc_ops - 1
    /\ createDataChannel
    /\ UNCHANGED dvars

\* createOffer with dynamic_pt set back to its start for every transceiver
createOffer_restarts_pt ==
    IF isClosed THEN Raise("createOffer", "", "InvalidStateError")
    ELSE IF ~sctp.exists /\ Len(transceivers) = 0
    THEN Raise("createOffer", "", "InternalError")
    ELSE
      LET ts == [i \in 1..Len(transceivers) |->
                    [transceivers[i] EXCEPT !.codecs =
                        offer_codecs(transceivers[i].kind, 1,
                                     Min(DYNAMIC_PAYLOAD_TYPES)).codecs]]
          s == __createSdp(ts, sctp)
      IN  /\ transceivers' = ts
          /\ pcall' = IF s.err
                      THEN PCall("createOffer", "", "TypeError", NoDescription)
                      ELSE PCall("createOffer", "", "ok",
                                 Description("offer", s.media))
          /\ UNCHANGED <<isClosed, signalingState, iceConnectionState,
                         iceGatheringState, sctp, currentLocalDescription,
                         currentRemoteDescription, gather_pc, connect_tasks,
                         bringup_pc, close_pc>>

createOffer ==
    IF isClosed THEN Raise("createOffer", "", "InvalidStateError")
    ELSE IF ~sctp.exists /\ Len(transceivers) = 0
    THEN Raise("createOffer", "", "InternalError")
    ELSE
      LET ts == offer_all(transceivers, 1, Min(DYNAMIC_PAYLOAD_TYPES))
          s == __createSdp(ts, sctp)
      IN  /\ transceivers' = ts
          /\ pcall' = IF s.err
                      THEN PCall("createOffer", "", "TypeError", NoDescription)
                      ELSE PCall("createOffer", "", "ok",
                                 Description("offer", s.media))
          /\ UNCHANGED <<isClosed, signalingState, iceConnectionState,
                         iceGatheringState, sctp, currentLocalDescription,
                         currentRemoteDescription, gather_pc, connect_tasks,
                         bringup_pc, close_pc>>

CreateOffer ==
    /\ pc_ops > 0
    /\ pc_ops' = pc_ops - 1
    /\ createOffer
    /\ UNCHANGED dvars

\* createAnswer, line 180
AnswerAllowed(st) == st \in {"have-remote-offer", "have-local-pranswer"}

createAnswer ==
    IF isClosed THEN Raise("createAnswer", "", "InvalidStateError")
    ELSE IF ~AnswerAllowed(signalingState)
    THEN Raise("createAnswer", "", "InvalidStateError")
    ELSE
      LET s == __createSdp(transceivers, sctp)
      IN  /\ pcall' = IF s.err
                      THEN PCall("createAnswer", "", "TypeError", NoDescription)
                      ELSE PCall("createAnswer", "", "ok",
                                 Description("answer", s.media))
          /\ UNCHANGED <<isClosed, signalingState, iceConnectionState,
                         iceGatheringState, transceivers, sctp,
                         currentLocalDescription, currentRemoteDescription,
                         gather_pc, connect_tasks, bringup_pc, close_pc>>

CreateAnswer ==
    /\ pc_ops > 0
    /\ pc_ops' = pc_ops - 1
    /\ createAnswer
    /\ UNCHANGED dvars

(***************************************************************************)
(* setLocalDescription and __gather.  The call is suspended in the         *)
(* gather_candidates() of transport gather_pc.i.                           *)
(***************************************************************************)
NoGather == [phase |-> "idle", i |-> 0, type |-> "None"]

\* `await iceConnection.gather_candidates()` is called on transport i of ts, sc
GatherCalled(ts, sc, i) ==
    IF i = 0 THEN [ts |-> ts, sc |-> [sc EXCEPT !.t.gathers = @ + 1]]
    ELSE [ts |-> [ts EXCEPT ![i].t.gathers = @ + 1], sc |-> sc]

\* __gather with the test of line 344 left out
__gather_untested == TRUE

\* RTCPeerConnection.__gather, line 344: the pass is made when the gathering
\* state is 'new'
__gather == iceGatheringState = "new"

\* setLocalDescription, lines 250-255, once __gather has returned; ts, sc are
\* the transceivers and the SCTP transport at that moment
SetLocalFinish(type, ts, sc) ==
    LET s == __createSdp(ts, sc)
    IN  /\ connect_tasks' = connect_tasks + 1
        /\ IF s.err
           THEN /\ pcall' = PCall("setLocalDescription", type, "TypeError",
                                  NoDescription)
                /\ UNCHANGED currentLocalDescription
           ELSE /\ currentLocalDescription' = Description(type, s.media)
                /\ pcall' = PCall("setLocalDescription", type, "ok",
                                  Description(type, s.media))

setLocalDescription(type) ==
    /\ signalingState' = IF type = "offer" THEN "have-local-offer"
                         ELSE IF type = "answer" THEN "stable"
                         ELSE signalingState
    /\ IF __gather
       THEN IF first_transport < 0
            THEN /\ iceGatheringState' = "complete"
                 /\ SetLocalFinish(type, transceivers, sctp)
                 /\ UNCHANGED <<gather_pc, transceivers, sctp>>
            ELSE LET g == GatherCalled(transceivers, sctp, first_transport)
                 IN  /\ iceGatheringState' = "gathering"
                     /\ gather_pc' = [phase |-> "gather", i |-> first_transport,
                                      type |-> type]
                     /\ transceivers' = g.ts
                     /\ sctp' = g.sc
                     /\ pcall' = PCall("setLocalDescription", type, "await",
                                       NoDescription)
                     /\ UNCHANGED <<connect_tasks, currentLocalDescription>>
       ELSE /\ SetLocalFinish(type, transceivers, sctp)
            /\ UNCHANGED <<iceGatheringState, gather_pc, transceivers, sctp>>
    /\ UNCHANGED <<isClosed, iceConnectionState,
                   currentRemoteDescription, bringup_pc, close_pc>>

SetLocalDescription ==
    /\ pc_ops > 0
    /\ pc_ops' = pc_ops - 1
    /\ \E type \in DescriptionTypes : setLocalDescription(type)
    /\ UNCHANGED dvars

\* __gather resumes: gather_candidates() of transport gather_pc.i is done
GatherStep ==
    /\ gather_pc.phase = "gather"
    /\ LET i == gather_pc.i
           t == [Transport(i) EXCEPT !.local_candidates = TRUE]
           ts == WithTransport(transceivers, i, t)
           sc == SctpWithTransport(sctp, i, t)
       IN  /\ IF next_transport(i) < 0
              THEN /\ iceGatheringState' = "complete"
                   /\ gather_pc' = NoGather
                   /\ transceivers' = ts
                   /\ sctp' = sc
                   /\ SetLocalFinish(gather_pc.type, ts, sc)
              ELSE /\ gather_pc' = [gather_pc EXCEPT !.i = next_transport(i)]
                   /\ transceivers' = GatherCalled(ts, sc, next_transport(i)).ts
                   /\ sctp' = GatherCalled(ts, sc, next_transport(i)).sc
                   /\ pcall' = PCall("setLocalDescription", gather_pc.type,
                                     "await", NoDescription)
                   /\ UNCHANGED <<iceGatheringState, connect_tasks,
                                  currentLocalDescription>>
    /\ UNCHANGED <<isClosed, signalingState, iceConnectionState,
                   currentRemoteDescription, bringup_pc, close_pc, pc_ops>>
    /\ UNCHANGED dvars

(***************************************************************************)
(* setRemoteDescription.                                                   *)
(***************************************************************************)
\* the check of lines 265-272 without its `elif` branch: answers pass
RemoteTypeAllowed_OffersOnly(type, st) ==
    IF type = "offer" THEN st \in {"stable", "have-remote-offer"}
    ELSE TRUE

\* lines 265-272: is a description of this type accepted in state st
RemoteTypeAllowed(type, st) ==
    IF type = "offer" THEN st \in {"stable", "have-remote-offer"}
    ELSE IF type = "answer" THEN st \in {"have-local-offer", "have-remote-pranswer"}
    ELSE TRUE

Applied(exc, ts, sc) == [exc |-> exc, transceivers |-> ts, sctp |-> sc]

\* lines 296-299 and 310-313: configure transport
Configure(t, media) ==
    [t EXCEPT !.remote_candidates = media.candidates,
              !.remote_fingerprint = media.fingerprint]

RECURSIVE apply_media(_, _, _, _)
\* lines 278-313: apply the m= sections from the k-th on; an exception
\* leaves what the earlier statements wrote
apply_media(media, k, ts, sc) ==
    IF k > Len(media) THEN Applied("none", ts, sc)
    ELSE IF media[k].kind \in {"audio", "video"}
    THEN
      LET found == {i \in 1..Len(ts) : ts[i].kind = media[k].kind}
          ts1 == IF found = {}
                 THEN Append(ts, __createTransceiver(NewId(ts, sc), FALSE,
                                                     media[k].kind, "None"))
                 ELSE ts
          i == IF found = {} THEN Len(ts1) ELSE Max(found)
          c == find_common_codecs(MEDIA_CODECS, media[k])
      IN  IF c.exc THEN Applied("KeyError", ts1, sc)
          ELSE IF Len(c.common) = 0 THEN Applied("AssertionError", ts1, sc)
          ELSE apply_media(media, k + 1,
                           [ts1 EXCEPT ![i].codecs = c.common,
                                       ![i].t = Configure(@, media[k]),
                                       ![i].receiver_track = TRUE],
                           sc)
    ELSE IF media[k].kind = "application"
    THEN
      LET sc1 == IF ~sc.exists THEN __createSctp(NewId(ts, sc), FALSE) ELSE sc
      IN  apply_media(media, k + 1, ts,
                      [sc1 EXCEPT !.t = Configure(@, media[k])])
    ELSE apply_media(media, k + 1, ts, sc)

setRemoteDescription(d) ==
    IF ~RemoteTypeAllowed(d.type, signalingState)
    THEN Raise("setRemoteDescription", d.type, "InvalidStateError")
    ELSE IF ~parse_ok(d.media)
    THEN /\ pcall' = PCall("setRemoteDescription", d.type, "AssertionError", d)
         /\ UNCHANGED <<isClosed, signalingState, iceConnectionState,
                        iceGatheringState, transceivers, sctp,
                        currentLocalDescription, currentRemoteDescription,
                        gather_pc, connect_tasks, bringup_pc, close_pc>>
    ELSE
      LET a == apply_media(d.media, 1, transceivers, sctp)
      IN  /\ transceivers' = a.transceivers
          /\ sctp' = a.sctp
          /\ IF a.exc # "none"
             THEN /\ pcall' = PCall("setRemoteDescription", d.type, a.exc, d)
                  /\ UNCHANGED <<connect_tasks, signalingState,
                                 currentRemoteDescription>>
             ELSE /\ connect_tasks' = connect_tasks + 1
                  /\ signalingState' =
                        IF d.type = "offer" THEN "have-remote-offer"
                        ELSE IF d.type = "answer" THEN "stable"
                        ELSE signalingState
                  /\ currentRemoteDescription' = d
                  /\ pcall' = PCall("setRemoteDescription", d.type, "ok", d)
          /\ UNCHANGED <<isClosed, iceConnectionState, iceGatheringState,
                         currentLocalDescription, gather_pc, bringup_pc,
                         close_pc>>

SetRemoteDescription ==
    /\ pc_ops > 0
    /\ pc_ops' = pc_ops - 1
    /\ \E d \in RemoteDescriptions : setRemoteDescription(d)
    /\ UNCHANGED dvars

(***************************************************************************)
(* __connect: a scheduled coroutine starts (ConnectTask), and the one that *)
(* entered the bring-up resumes from ice.connect() and dtls.connect().     *)
(***************************************************************************)
NoBringUp == [phase |-> "none", i |-> 0]

\* __connect without the test of line 331
__connect_untested ==
    LET tr == __transports(transceivers, sctp)
    IN  IF \E k \in 1..Len(tr) :
               ~tr[k].local_candidates \/ ~tr[k].remote_candidates
        THEN /\ pcall' = PCall("__connect", "", "return", NoDescription)
             /\ UNCHANGED <<iceConnectionState, bringup_pc, transceivers, sctp>>
        ELSE IF first_transport < 0
        THEN /\ iceConnectionState' = "completed"
             /\ bringup_pc' = [phase |-> "done", i |-> 0]
             /\ pcall' = PCall("__connect", "", "completed", NoDescription)
             /\ UNCHANGED <<transceivers, sctp>>
        ELSE LET c == IceConnectCalled(transceivers, sctp, first_transport)
             IN  /\ iceConnectionState' = "checking"
                 /\ bringup_pc' = [phase |-> "ice", i |-> first_transport]
                 /\ transceivers' = c.transceivers
                 /\ sctp' = c.sctp
                 /\ pcall' = PCall("__connect", "", "await", NoDescription)

\* __connect with a test of line 331 that also lets 'checking' through
__connect_retries ==
    LET tr == __transports(transceivers, sctp)
    IN  IF \E k \in 1..Len(tr) :
               ~tr[k].local_candidates \/ ~tr[k].remote_candidates
        THEN /\ pcall' = PCall("__connect", "", "return", NoDescription)
             /\ UNCHANGED <<iceConnectionState, bringup_pc, transceivers, sctp>>
        ELSE IF iceConnectionState \notin {"new", "checking"}
        THEN /\ pcall' = PCall("__connect", "", "return", NoDescription)
             /\ UNCHANGED <<iceConnectionState, bringup_pc, transceivers, sctp>>
        ELSE IF first_transport < 0
        THEN /\ iceConnectionState' = "completed"
             /\ bringup_pc' = [phase |-> "done", i |-> 0]
             /\ pcall' = PCall("__connect", "", "completed", NoDescription)
             /\ UNCHANGED <<transceivers, sctp>>
        ELSE LET c == IceConnectCalled(transceivers, sctp, first_transport)
             IN  /\ iceConnectionState' = "checking"
                 /\ bringup_pc' = [phase |-> "ice", i |-> first_transport]
                 /\ transceivers' = c.transceivers
                 /\ sctp' = c.sctp
                 /\ pcall' = PCall("__connect", "", "await", NoDescription)

\* __connect, lines 327-334, up to its first await
__connect ==
    LET tr == __transports(transceivers, sctp)
    IN  IF \E k \in 1..Len(tr) :
               ~tr[k].local_candidates \/ ~tr[k].remote_candidates
        THEN /\ pcall' = PCall("__connect", "", "return", NoDescription)
             /\ UNCHANGED <<iceConnectionState, bringup_pc, transceivers, sctp>>
        ELSE IF iceConnectionState # "new"
        THEN /\ pcall' = PCall("__connect", "", "return", NoDescription)
             /\ UNCHANGED <<iceConnectionState, bringup_pc, transceivers, sctp>>
        ELSE IF first_transport < 0
        THEN /\ iceConnectionState' = "completed"
             /\ bringup_pc' = [phase |-> "done", i |-> 0]
             /\ pcall' = PCall("__connect", "", "completed", NoDescription)
             /\ UNCHANGED <<transceivers, sctp>>
        ELSE LET c == IceConnectCalled(transceivers, sctp, first_transport)
             IN  /\ iceConnectionState' = "checking"
                 /\ bringup_pc' = [phase |-> "ice", i |-> first_transport]
                 /\ transceivers' = c.transceivers
                 /\ sctp' = c.sctp
                 /\ pcall' = PCall("__connect", "", "await", NoDescription)

\* a connect coroutine scheduled by ensure_future starts
ConnectTask ==
    /\ connect_tasks > 0
    /\ connect_tasks' = connect_tasks - 1
    /\ __connect
    /\ UNCHANGED <<isClosed, signalingState, iceGatheringState,
                   currentLocalDescription, currentRemoteDescription,
                   gather_pc, close_pc, pc_ops>>
    /\ UNCHANGED dvars

\* `await iceConnection.connect()` ends; on success dtlsSession.connect() is
\* entered (its assertion, then CONNECTING) and awaited
IceConnected ==
    /\ bringup_pc.phase = "ice"
    /\ \E ok \in BOOLEAN :
         LET i == bringup_pc.i
             t == Transport(i)
             t1 == IF ~ok THEN [t EXCEPT !.ice = "failed"]
                   ELSE IF t.dtls # "CLOSED"
                   THEN [t EXCEPT !.ice = "connected", !.dtls_connects = @ + 1]
                   ELSE [t EXCEPT !.ice = "connected", !.dtls = "CONNECTING",
                                  !.dtls_connects = @ + 1]
         IN  /\ transceivers' = WithTransport(transceivers, i, t1)
             /\ sctp' = SctpWithTransport(sctp, i, t1)
             /\ IF ~ok
                THEN /\ bringup_pc' = [bringup_pc EXCEPT !.phase = "failed"]
                     /\ pcall' = PCall("__connect", "", "ConnectionError",
                                       NoDescription)
                ELSE IF t.dtls # "CLOSED"
                THEN /\ bringup_pc' = [bringup_pc EXCEPT !.phase = "failed"]
                     /\ pcall' = PCall("__connect", "", "AssertionError",
                                       NoDescription)
                ELSE /\ bringup_pc' = [bringup_pc EXCEPT !.phase = "dtls"]
                     /\ pcall' = PCall("__connect", "", "await", NoDescription)
    /\ UNCHANGED <<isClosed, signalingState, iceConnectionState,
                   iceGatheringState, currentLocalDescription,
                   currentRemoteDescription, gather_pc, connect_tasks, close_pc,
                   pc_ops>>
    /\ UNCHANGED dvars

\* `await dtlsSession.connect()` ends: CONNECTED, or an exception with the
\* session left CONNECTING; after the last transport, lines 336-341
DtlsConnected ==
    /\ bringup_pc.phase = "dtls"
    /\ \E ok \in BOOLEAN :
         LET i == bringup_pc.i
             t == Transport(i)
             t1 == IF ok THEN [t EXCEPT !.dtls = "CONNECTED"] ELSE t
             ts == WithTransport(transceivers, i, t1)
             sc == SctpWithTransport(sctp, i, t1)
             c == IF ok /\ next_transport(i) >= 0
                  THEN IceConnectCalled(ts, sc, next_transport(i))
                  ELSE [transceivers |-> ts, sctp |-> sc]
         IN  /\ transceivers' = c.transceivers
             /\ sctp' = c.sctp
             /\ IF ~ok
                THEN /\ bringup_pc' = [bringup_pc EXCEPT !.phase = "failed"]
                     /\ pcall' = PCall("__connect", "", "DtlsError", NoDescription)
                     /\ UNCHANGED iceConnectionState
                ELSE IF next_transport(i) < 0
                THEN /\ bringup_pc' = [phase |-> "done", i |-> 0]
                     /\ iceConnectionState' = "completed"
                     /\ pcall' = PCall("__connect", "", "completed", NoDescription)
                ELSE /\ bringup_pc' = [phase |-> "ice", i |-> next_transport(i)]
                     /\ pcall' = PCall("__connect", "", "await", NoDescription)
                     /\ UNCHANGED iceConnectionState
    /\ UNCHANGED <<isClosed, signalingState, iceGatheringState,
                   currentLocalDescription, currentRemoteDescription, gather_pc,
                   connect_tasks, close_pc, pc_ops>>
    /\ UNCHANGED dvars

(***************************************************************************)
(* RTCPeerConnection.close: the call up to its first await, then one       *)
(* action per awaited stop() / close().                                    *)
(***************************************************************************)
NoClose == [phase |-> "idle", i |-> 0]

\* close() without the test of lines 157-158
close_pc_call_unguarded ==
    /\ isClosed' = TRUE
    /\ signalingState' = "closed"
    /\ IF first_transport < 0
       THEN /\ iceConnectionState' = "closed"
            /\ close_pc' = [phase |-> "done", i |-> 0]
            /\ pcall' = PCall("close", "", "ok", NoDescription)
       ELSE /\ close_pc' = [phase |-> "stop", i |-> first_transport]
            /\ pcall' = PCall("close", "", "await", NoDescription)
            /\ UNCHANGED iceConnectionState

\* close() with line 169 moved before the loops
close_pc_call_closed_first ==
    IF isClosed
    THEN /\ pcall' = PCall("close", "", "ok", NoDescription)
         /\ UNCHANGED <<isClosed, signalingState, iceConnectionState, close_pc>>
    ELSE /\ isClosed' = TRUE
         /\ signalingState' = "closed"
         /\ iceConnectionState' = "closed"
         /\ IF first_transport < 0
            THEN /\ close_pc' = [phase |-> "done", i |-> 0]
                 /\ pcall' = PCall("close", "", "ok", NoDescription)
            ELSE /\ close_pc' = [phase |-> "stop", i |-> first_transport]
                 /\ pcall' = PCall("close", "", "await", NoDescription)

close_pc_call ==
    IF isClosed
    THEN /\ pcall' = PCall("close", "", "ok", NoDescription)
         /\ UNCHANGED <<isClosed, signalingState, iceConnectionState, close_pc>>
    ELSE /\ isClosed' = TRUE
         /\ signalingState' = "closed"
         /\ IF first_transport < 0
            THEN /\ iceConnectionState' = "closed"
                 /\ close_pc' = [phase |-> "done", i |-> 0]
                 /\ pcall' = PCall("close", "", "ok", NoDescription)
            ELSE /\ close_pc' = [phase |-> "stop", i |-> first_transport]
                 /\ pcall' = PCall("close", "", "await", NoDescription)
                 /\ UNCHANGED iceConnectionState

ClosePeerConnection ==
    /\ pc_ops > 0
    /\ pc_ops' = pc_ops - 1
    /\ close_pc_call
    /\ UNCHANGED <<iceGatheringState, transceivers, sctp,
                   currentLocalDescription, currentRemoteDescription, gather_pc,
                   connect_tasks, bringup_pc>>
    /\ UNCHANGED dvars

CloseStep ==
    /\ close_pc.phase \in {"stop", "dtls", "ice"}
    /\ LET i == close_pc.i
           t == Transport(i)
           t1 == CASE close_pc.phase = "stop" -> [t EXCEPT !.stopped = TRUE]
                   [] close_pc.phase = "dtls" ->
                        [t EXCEPT !.dtls_closed = @ \/ t.dtls # "CLOSED"]
                   [] OTHER -> [t EXCEPT !.ice = "closed"]
       IN  /\ transceivers' = WithTransport(transceivers, i, t1)
           /\ sctp' = SctpWithTransport(sctp, i, t1)
           /\ IF close_pc.phase = "stop"
              THEN /\ close_pc' = [close_pc EXCEPT !.phase = "dtls"]
                   /\ pcall' = PCall("close", "", "await", NoDescription)
                   /\ UNCHANGED iceConnectionState
              ELSE IF close_pc.phase = "dtls"
              THEN /\ close_pc' = [close_pc EXCEPT !.phase = "ice"]
                   /\ pcall' = PCall("close", "", "await", NoDescription)
                   /\ UNCHANGED iceConnectionState
              ELSE IF next_transport(i) < 0
              THEN /\ close_pc' = [phase |-> "done", i |-> 0]
                   /\ iceConnectionState' = "closed"
                   /\ pcall' = PCall("close", "", "ok", NoDescription)
              ELSE /\ close_pc' = [phase |-> "stop", i |-> next_transport(i)]
                   /\ pcall' = PCall("close", "", "await", NoDescription)
                   /\ UNCHANGED iceConnectionState
    /\ UNCHANGED <<isClosed, signalingState, iceGatheringState,
                   currentLocalDescription, currentRemoteDescription, gather_pc,
                   connect_tasks, bringup_pc, pc_ops>>
    /\ UNCHANGED dvars

(***************************************************************************)
(* The peer connection after __init__.                                     *)
(***************************************************************************)
PcInit ==
    /\ isClosed = FALSE
    /\ signalingState = "stable"
    /\ iceConnectionState = "new"
    /\ iceGatheringState = "new"
    /\ transceivers = <<>>
    /\ sctp = NoSctp
    /\ currentLocalDescription = NoDescription
    /\ currentRemoteDescription = NoDescription
    /\ gather_pc = NoGather
    /\ connect_tasks = 0
    /\ bringup_pc = NoBringUp
    /\ close_pc = NoClose
    /\ pc_ops = MaxPcOps
    /\ pcall = PCall("__init__", "", "ok", NoDescription)

(***************************************************************************)
(* The DTLS specification: both sessions of the pair, any calls.           *)
(***************************************************************************)
Fingerprints(s) == {certificate_digest(Peer(s)),
                    LowerCase(certificate_digest(Peer(s))),
                    certificate_digest(3)}

DtlsStart(budget) ==
    /\ state = [s \in Sess |-> "CLOSED"]
    /\ encrypted = [s \in Sess |-> FALSE]
    /\ closed = [s \in Sess |-> FALSE]
    /\ remote_fingerprint \in
           {[s \in Sess |-> IF s = 1 THEN f1 ELSE f2] :
               f1 \in Fingerprints(1), f2 \in Fingerprints(2)}
    /\ ssl = [s \in Sess |-> NewSsl]
    /\ write_bio = [s \in Sess |-> <<>>]
    /\ srtp = [s \in Sess |-> NoSrtp]
    /\ data_queue = [s \in Sess |-> <<>>]
    /\ rtp_queue = [s \in Sess |-> <<>>]
    /\ connect_pc = [s \in Sess |-> "idle"]
    /\ run_pc = [s \in Sess |-> "none"]
    /\ recv_pc = [s \in Sess |-> [ch \in Channels |-> "idle"]]
    /\ rx_queue = [s \in Sess |-> <<>>]
    /\ transport_closed = [s \in Sess |-> FALSE]
    /\ ops = budget
    /\ closes = [s \in Sess |-> 0]
    /\ call = Call(0, "init", "ok", SetStateNone)

DtlsInit ==
    /\ DtlsStart(MaxOps)
    /\ PcInit

DtlsNext ==
    \E s \in Sess :
        \/ Connect(s)
        \/ ConnectRecv(s)
        \/ Run(s)
        \/ Close(s)
        \/ SendData(s)
        \/ SendRtp(s)
        \/ Inject(s)
        \/ TransportClose(s)

SpecDtls == DtlsInit /\ [][DtlsNext]_vars


(***************************************************************************)
(* The liveness specification: the two sessions hold each other's          *)
(* fingerprint, connect() is started once on each, nobody closes anything  *)
(* and the network delivers only what the peer sent.  The event loop runs  *)
(* every coroutine that can run (weak fairness).                           *)
(***************************************************************************)
StartConnect(s) ==
    /\ state[s] = "CLOSED"
    /\ run_pc[s] = "none"
    /\ ConnectCall(s)
    /\ UNCHANGED <<ops, closes>>
    /\ UNCHANGED <<recv_pc, pvars>>

LiveInit ==
    /\ DtlsStart(MaxSends)
    /\ PcInit
    /\ \A s \in Sess : upper(remote_fingerprint[s]) = certificate_digest(Peer(s))

LiveNext ==
    \E s \in Sess :
        \/ StartConnect(s)
        \/ ConnectRecv(s)
        \/ Run(s)
        \/ SendData(s)
        \/ SendRtp(s)

SpecDtlsLive ==
    /\ LiveInit
    /\ [][LiveNext]_vars
    /\ \A s \in Sess : /\ WF_vars(StartConnect(s))
                       /\ WF_vars(ConnectRecv(s))
                       /\ WF_vars(Run(s))

(***************************************************************************)
(* The close specification: the two sessions hold each other's fingerprint *)
(* and connect() is started once on each; then any close(), send or        *)
(* transport failure, over a network that delivers what the peer sent.     *)
(* The event loop runs a receive pump that can run.                        *)
(***************************************************************************)
CloseInit ==
    /\ DtlsStart(MaxEvents)
    /\ PcInit
    /\ \A s \in Sess : remote_fingerprint[s] = certificate_digest(Peer(s))

CloseNext ==
    \E s \in Sess :
        \/ StartConnect(s)
        \/ ConnectRecv(s)
        \/ Run(s)
        \/ Close(s)
        \/ SendData(s)
        \/ SendRtp(s)
        \/ TransportClose(s)

SpecDtlsClose ==
    /\ CloseInit
    /\ [][CloseNext]_vars
    /\ \A s \in Sess : WF_vars(Run(s))

(***************************************************************************)
(* The channel specification: the two sessions hold each other's           *)
(* fingerprint and connect() is started once on each; the application      *)
(* receives on the data and rtp channels of one session while its peer     *)
(* sends, either session is closed, or the receiver's transport fails.     *)
(* The event loop runs a receive pump and a recv that can run.             *)
(***************************************************************************)
ChannelsInit ==
    /\ DtlsStart(MaxSends)
    /\ PcInit
    /\ \A s \in Sess : remote_fingerprint[s] = certificate_digest(Peer(s))

\* the session whose channels the application receives on
Receiver == 1

ChannelsNext ==
    \/ \E s \in Sess :
          \/ StartConnect(s)
          \/ ConnectRecv(s)
          \/ Run(s)
          \/ Close(s)
    \/ SendData(Peer(Receiver))
    \/ SendRtp(Peer(Receiver))
    \/ TransportClose(Receiver)
    \/ \E ch \in Channels :
          \/ ChannelRecv(Receiver, ch)
          \/ ChannelRecvResume(Receiver, ch)

SpecChannels ==
    /\ ChannelsInit
    /\ [][ChannelsNext]_vars
    /\ \A s \in Sess : WF_vars(Run(s))
    /\ \A ch \in Channels : WF_vars(ChannelRecvResume(Receiver, ch))

(***************************************************************************)
(* The teardown specification: connect() is started once on each session;  *)
(* then any close(), transport failure, recv, and further connect() calls. *)
(***************************************************************************)
TeardownInit ==
    /\ DtlsStart(MaxEvents)
    /\ PcInit
    /\ \A s \in Sess : remote_fingerprint[s] = certificate_digest(Peer(s))

TeardownNext ==
    \E s \in Sess :
        \/ StartConnect(s)
        \/ ConnectRecv(s)
        \/ Run(s)
        \/ Close(s)
        \/ Connect(s)
        \/ TransportClose(s)
        \/ \E ch \in Channels : ChannelRecv(s, ch)
        \/ \E ch \in Channels : ChannelRecvResume(s, ch)

SpecTeardown ==
    /\ TeardownInit
    /\ [][TeardownNext]_vars
    /\ \A s \in Sess : /\ WF_vars(Run(s))
                       /\ \A ch \in Channels : WF_vars(ChannelRecvResume(s, ch))

(***************************************************************************)
(* The demultiplexing specification: the two sessions hold each other's    *)
(* fingerprint and connect() is started once on each; the network delivers *)
(* up to MaxDatagrams datagrams of any class at any moment, during the     *)
(* handshake or to the receive pump.                                       *)
(***************************************************************************)
MaxDatagrams == 2

DemuxInit ==
    /\ DtlsStart(MaxDatagrams)
    /\ PcInit
    /\ \A s \in Sess : remote_fingerprint[s] = certificate_digest(Peer(s))

DemuxNext ==
    \E s \in Sess :
        \/ StartConnect(s)
        \/ ConnectRecv(s)
        \/ Run(s)
        \/ Deliver(s)

SpecDemux == DemuxInit /\ [][DemuxNext]_vars

(***************************************************************************)
(* The peer connection specification: any API calls, any interleaving of   *)
(* the suspended coroutines.                                               *)
(***************************************************************************)
Init ==
    /\ PcInit
    /\ DtlsStart(MaxOps)
    /\ \A s \in Sess : remote_fingerprint[s] = certificate_digest(Peer(s))

Next ==
    \/ AddTrack
    \/ CreateDataChannel
    \/ CreateOffer
    \/ CreateAnswer
    \/ SetLocalDescription
    \/ GatherStep
    \/ SetRemoteDescription
    \/ ConnectTask
    \/ IceConnected
    \/ DtlsConnected
    \/ ClosePeerConnection
    \/ CloseStep

Spec == Init /\ [][Next]_vars

(***************************************************************************)
(* The codec specification: find_common_codecs on every input.             *)
(***************************************************************************)
CodecsInit ==
    /\ PcInit
    /\ DtlsStart(MaxOps)
    /\ \A s \in Sess : remote_fingerprint[s] = certificate_digest(Peer(s))

CodecsNext == FindCommonCodecs

SpecCodecs == CodecsInit /\ [][CodecsNext]_vars

(***************************************************************************)
(* The key specification: get_srtp_key_salt and the key assignment of      *)
(* connect() on every block.                                               *)
(***************************************************************************)
KeysInit ==
    /\ PcInit
    /\ DtlsStart(MaxOps)
    /\ \A s \in Sess : remote_fingerprint[s] = certificate_digest(Peer(s))

KeysNext == GetSrtpKeySalt \/ ExportKeys

SpecKeys == KeysInit /\ [][KeysNext]_vars

(***************************************************************************)
(* Claims about the DTLS session.                                          *)
(***************************************************************************)
AllowedEdges == {<<"CLOSED", "CONNECTING">>, <<"CONNECTING", "CONNECTED">>,
                 <<"CONNECTED", "CLOSED">>}

\* C3 (as claimed): `encrypted` only changes from false to true; every
\* _set_state follows CLOSED->CONNECTING->CONNECTED->CLOSED; a session that
\* came back to CLOSED (its pump has ended) never leaves CLOSED again; a
\* CONNECTED session is encrypted.
C3_StateMonotone ==
    [][\A s \in Sess :
          /\ encrypted[s] => encrypted'[s]
          /\ \A i \in 1..Len(call'.set_state) : call'.set_state[i] \in AllowedEdges
          /\ (state[s] = "CLOSED" /\ run_pc[s] = "done") => state'[s] = "CLOSED"
          /\ state'[s] = "CONNECTED" => encrypted'[s]]_vars

\* C4 (as claimed): when connect() raises DtlsError the session is CLOSED,
\* no SRTP session is installed and no receive pump was started.
C4_FailedConnectLeavesClosed ==
    (call.op = "connect" /\ call.result = "DtlsError") =>
        /\ state[call.s] = "CLOSED"
        /\ ~srtp[call.s].installed
        /\ run_pc[call.s] = "none"

\* C5: with the fingerprints exchanged and connect() started on both ends of
\* a lossless in-order transport pair, both sessions end up encrypted and
\* CONNECTED, and no connect() stays in the handshake loop.
C5_HandshakeCompletes ==
    <>[](\A s \in Sess : /\ encrypted[s]
                         /\ state[s] = "CONNECTED"
                         /\ connect_pc[s] = "idle")

C5_BothConnected ==
    \A s \in Sess : /\ encrypted[s] /\ state[s] = "CONNECTED"
                    /\ call.op = "connect" /\ call.result = "ok"

\* C7 (as claimed): close() on a CONNECTED session, and any close() after
\* one that returned on a CONNECTED session, raises nothing; the later call
\* changes nothing (no second close_notify is sent); the closed event stays
\* set; and, called once or twice, the session reaches the same terminal
\* state: CLOSED, closed event set, receive pump ended.
C7_CloseIdempotent ==
    /\ \A s \in Sess :
          closes[s] > 0 ~> (state[s] = "CLOSED" /\ closed[s] /\ run_pc[s] = "done")
    /\ [][\A s \in Sess :
          /\ (/\ call'.op = "close" /\ call'.s = s /\ ops' = ops - 1
              /\ (state[s] = "CONNECTED" \/ closes[s] > 0))
                => call'.result = "ok"
          /\ (call'.op = "close" /\ call'.s = s /\ ops' = ops - 1 /\ closes[s] > 0)
                => /\ rx_queue' = rx_queue
                   /\ <<state[s], closed[s], run_pc[s], ssl[s], write_bio[s]>>'
                        = <<state[s], closed[s], run_pc[s], ssl[s], write_bio[s]>>
          /\ closes'[s] > 0
                => /\ closed'[s]
                   /\ run_pc'[s] = "run" => "closed" \in Arms(s)'
                   /\ run_pc'[s] = "done" => state'[s] = "CLOSED"]_vars

\* C8 (as claimed): data.send and rtp.send raise ConnectionError and put
\* nothing on the transport when the session is not CONNECTED or close()
\* has returned on it.
C8_SendRefusedUnlessConnected ==
    [][\A s \in Sess :
          (/\ call'.s = s
           /\ call'.op \in {"data.send", "rtp.send"}
           /\ ops' = ops - 1
           /\ (state[s] # "CONNECTED" \/ closes[s] > 0))
          => (call'.result = "ConnectionError" /\ rx_queue' = rx_queue)]_vars

\* C9 (as claimed): close() on a CONNECTING session raises nothing, releases
\* a connect() blocked in the handshake, and the session ends CLOSED with
\* the closed event set.
C9_HalfOpenCloseEndsClosed ==
    \A s \in Sess :
        /\ (call = Call(s, "close", "ConnectionError", SetStateNone)
              /\ state[s] = "CONNECTING") => transport_closed[s]
        /\ (closed[s] /\ connect_pc[s] = "recv") => "closed" \in Arms(s)
        /\ (closed[s] /\ run_pc[s] = "none" /\ connect_pc[s] = "idle")
              => state[s] = "CLOSED"

\* C10 (as claimed): when the pump takes a datagram of the SRTP class that
\* fails to unprotect, nothing is enqueued, the session stays CONNECTED, the
\* closed event is not set and the pump keeps running.
C10_UnprotectFailureNotFatal ==
    [][\A s \in Sess :
          (/\ call'.op = "run" /\ call'.s = s
           /\ run_pc[s] = "run"
           /\ rx_queue[s] # <<>>
           /\ rx_queue'[s] = Tail(rx_queue[s])
           /\ Head(rx_queue[s]).b0 > 127 /\ Head(rx_queue[s]).b0 < 192
           /\ IF is_rtcp(Head(rx_queue[s]))
              THEN ~unprotect_rtcp_ok(srtp[s].rx, Head(rx_queue[s]))
              ELSE ~unprotect_ok(srtp[s].rx, Head(rx_queue[s])))
          => /\ rtp_queue'[s] = rtp_queue[s]
             /\ state'[s] = state[s]
             /\ closed'[s] = closed[s]
             /\ run_pc'[s] = "run"]_vars

(***************************************************************************)
(* Claims about the peer connection.                                       *)
(***************************************************************************)
SignalingEdges == {<<"stable", "have-local-offer">>,
                   <<"have-local-offer", "stable">>,
                   <<"stable", "have-remote-offer">>,
                   <<"have-remote-offer", "stable">>}

\* C1 (as claimed): every change of signalingState follows one of the edges
\* stable->have-local-offer, have-local-offer->stable,
\* stable->have-remote-offer, have-remote-offer->stable or (any)->closed,
\* and no operation changes signalingState once it is 'closed'.
C1_SignalingStateMachine ==
    [][/\ signalingState' # signalingState
            => \/ <<signalingState, signalingState'>> \in SignalingEdges
               \/ signalingState' = "closed"
       /\ signalingState = "closed" => signalingState' = "closed"]_vars

\* the step is an API call of this name
IsCall(op) == pcall'.op = op /\ pc_ops' = pc_ops - 1

\* the call raised InvalidStateError and wrote nothing
RejectedUnchanged ==
    /\ pcall'.result = "InvalidStateError"
    /\ UNCHANGED <<isClosed, signalingState, iceConnectionState,
                   iceGatheringState, transceivers, sctp,
                   currentLocalDescription, currentRemoteDescription,
                   gather_pc, connect_tasks, bringup_pc, close_pc>>

\* C2: setRemoteDescription(offer) outside {stable, have-remote-offer},
\* setRemoteDescription(answer) outside {have-local-offer,
\* have-remote-pranswer} and createAnswer outside {have-remote-offer,
\* have-local-pranswer} raise InvalidStateError and leave the peer
\* connection as it was: signalingState, transceivers and their codecs and
\* transport fields, the SCTP transport, the remote description, and the
\* number of scheduled connect coroutines.
C2_GatedCallsRejectedUnchanged ==
    [][/\ (/\ IsCall("setRemoteDescription")
           /\ pcall'.arg = "offer"
           /\ signalingState \notin {"stable", "have-remote-offer"})
              => RejectedUnchanged
       /\ (/\ IsCall("setRemoteDescription")
           /\ pcall'.arg = "answer"
           /\ signalingState \notin {"have-local-offer", "have-remote-pranswer"})
              => RejectedUnchanged
       /\ (/\ IsCall("createAnswer")
           /\ signalingState \notin {"have-remote-offer", "have-local-pranswer"})
              => RejectedUnchanged]_vars

C2_AnswerRejectedInStable ==
    /\ pcall.op = "setRemoteDescription"
    /\ pcall.arg = "answer"
    /\ pcall.result = "InvalidStateError"
    /\ signalingState = "stable"
    /\ Len(transceivers) > 0
    /\ connect_tasks = 0

\* C6 (as claimed): a description made by createOffer carries setup:actpass
\* and one made by createAnswer carries setup:active on every m= section;
\* and every transport configured from the remote description has the DTLS
\* role the remote peer does not have (the peer is the server when it wrote
\* setup:actpass).
C6_SetupRoles ==
    /\ (pcall.op \in {"createOffer", "createAnswer"} /\ pcall.result = "ok")
          => \A k \in 1..Len(pcall.sdp.media) :
                pcall.sdp.media[k].setup =
                    IF pcall.sdp.type = "offer" THEN "actpass" ELSE "active"
    /\ (pcall.op = "setRemoteDescription" /\ pcall.result = "ok")
          => LET tr == __transports(transceivers, sctp)
             IN  \A k \in 1..Len(tr) :
                    tr[k].remote_fingerprint # "None"
                       => tr[k].is_server # (pcall.sdp.setup = "actpass")

\* position of an iceConnectionState in new -> checking -> completed -> closed
IceRank(st) == CASE st = "new" -> 0
                 [] st = "checking" -> 1
                 [] st = "completed" -> 2
                 [] OTHER -> 3

\* C11 (as claimed): iceConnectionState only moves forward along
\* new -> checking -> completed -> closed, never backward, and once it is
\* 'closed' no step changes it, whatever the interleaving of close() with a
\* scheduled or suspended connect coroutine.
C11_IceConnectionStateForward ==
    [][/\ IceRank(iceConnectionState') >= IceRank(iceConnectionState)
       /\ iceConnectionState = "closed" => iceConnectionState' = "closed"]_vars

\* C12: the first close() sets the connection closed and signalingState
\* 'closed' before its first await, and the step on which it returns sets
\* iceConnectionState 'closed'; a close() called on a closed connection,
\* whether the first call has returned or is still suspended, returns
\* normally and writes nothing: no state setter runs (so no state-change
\* event is emitted), no transceiver, DTLS session, ICE connection or SCTP
\* endpoint is stopped or closed again, and the suspended first call is not
\* disturbed.
C12_CloseIdempotent ==
    [][/\ (IsCall("close") /\ ~isClosed)
            => /\ isClosed'
               /\ signalingState' = "closed"
               /\ pcall'.result \in {"ok", "await"}
       /\ (pcall'.op = "close" /\ close_pc.phase # "done" /\ close_pc'.phase = "done")
            => /\ pcall'.result = "ok"
               /\ isClosed'
               /\ iceConnectionState' = "closed"
       /\ (IsCall("close") /\ isClosed)
            => /\ pcall'.result = "ok"
               /\ UNCHANGED <<isClosed, signalingState, iceConnectionState,
                              iceGatheringState, transceivers, sctp,
                              currentLocalDescription, currentRemoteDescription,
                              gather_pc, connect_tasks, bringup_pc, close_pc>>]_vars

\* a second close() has returned while the first is still suspended in the
\* close of a transport
C12_SecondCloseReturned ==
    /\ pcall = PCall("close", "", "ok", NoDescription)
    /\ isClosed
    /\ close_pc.phase \in {"stop", "dtls", "ice"}
    /\ Len(transceivers) > 0

\* the track the application passed under this id
TrackOf(id) == CHOOSE track \in Tracks : track.id = id

\* the call wrote nothing: the transceiver list, every sender's track and
\* every transport are as before
NothingWritten ==
    UNCHANGED <<isClosed, signalingState, iceConnectionState,
                iceGatheringState, transceivers, sctp,
                currentLocalDescription, currentRemoteDescription,
                gather_pc, connect_tasks, bringup_pc, close_pc>>

\* C13: addTrack raises InvalidStateError on a closed connection, whatever
\* the track; else InternalError for a kind other than audio and video; else
\* InvalidAccessError when the track is already a sender's track; else
\* InternalError when a transceiver of the kind carries another sender
\* track; and a rejected addTrack leaves the transceiver list, the senders'
\* tracks and the transports as they were, creating no ICE connection and
\* no DTLS session.
C13_AddTrackRejections ==
    [][IsCall("addTrack") =>
         LET track == TrackOf(pcall'.arg)
             attached == \E i \in 1..Len(transceivers) :
                            transceivers[i].sender_track = track.id
             occupied == \E i \in 1..Len(transceivers) :
                            /\ transceivers[i].kind = track.kind
                            /\ transceivers[i].sender_track # "None"
         IN  /\ pcall'.result =
                   IF isClosed THEN "InvalidStateError"
                   ELSE IF track.kind \notin {"audio", "video"} THEN "InternalError"
                   ELSE IF attached THEN "InvalidAccessError"
                   ELSE IF occupied THEN "InternalError"
                   ELSE "ok"
             /\ pcall'.result # "ok" => NothingWritten]_vars

\* a second microphone was rejected on a connection whose audio transceiver
\* already sends the first
C13_SecondTrackRejected ==
    /\ pcall.op = "addTrack"
    /\ pcall.arg = "mic2"
    /\ pcall.result = "InternalError"
    /\ ~isClosed
    /\ \E i \in 1..Len(transceivers) : transceivers[i].sender_track = "mic"

\* C14: the transceiver list holds at most one transceiver per kind, each
\* of kind audio or video; every transport's DTLS session has that
\* transport's ICE connection as its transport, and no two transports share
\* a connection.  Step by step: the list only grows at its end and only in
\* a successful addTrack that found no transceiver of the kind (one new
\* transceiver, controlling, carrying the track) or in setRemoteDescription
\* (new transceivers not controlling, without sender track); an addTrack
\* that finds a transceiver of its kind without sender track binds the track
\* to it; an existing transceiver keeps its kind, its ICE connection with
\* its role, and its DTLS session with its role and transport.
C14_OneTransceiverPerKind ==
    /\ [](/\ \A i, j \in 1..Len(transceivers) :
                i # j => transceivers[i].kind # transceivers[j].kind
          /\ \A i \in 1..Len(transceivers) :
                transceivers[i].kind \in {"audio", "video"}
          /\ LET tr == __transports(transceivers, sctp)
             IN  \A i, j \in 1..Len(tr) :
                    /\ tr[i].dtls_transport = tr[i].ice_id
                    /\ i # j => tr[i].ice_id # tr[j].ice_id)
    /\ [][/\ Len(transceivers') >= Len(transceivers)
          /\ \A i \in 1..Len(transceivers) :
                /\ transceivers'[i].kind = transceivers[i].kind
                /\ transceivers'[i].t.ice_id = transceivers[i].t.ice_id
                /\ transceivers'[i].t.ice_controlling = transceivers[i].t.ice_controlling
                /\ transceivers'[i].t.dtls_transport = transceivers[i].t.dtls_transport
                /\ transceivers'[i].t.is_server = transceivers[i].t.is_server
          /\ Len(transceivers') > Len(transceivers)
                => \/ /\ IsCall("addTrack") /\ pcall'.result = "ok"
                      /\ Len(transceivers') = Len(transceivers) + 1
                      /\ \A i \in 1..Len(transceivers) :
                            transceivers[i].kind # TrackOf(pcall'.arg).kind
                      /\ transceivers'[Len(transceivers')].t.ice_controlling
                      /\ transceivers'[Len(transceivers')].sender_track = pcall'.arg
                   \/ /\ IsCall("setRemoteDescription")
                      /\ \A i \in (Len(transceivers) + 1)..Len(transceivers') :
                            /\ ~transceivers'[i].t.ice_controlling
                            /\ transceivers'[i].sender_track = "None"
          /\ (/\ IsCall("addTrack") /\ pcall'.result = "ok"
              /\ \E i \in 1..Len(transceivers) :
                    transceivers[i].kind = TrackOf(pcall'.arg).kind)
                => /\ Len(transceivers') = Len(transceivers)
                   /\ \E i \in 1..Len(transceivers) :
                         /\ transceivers[i].kind = TrackOf(pcall'.arg).kind
                         /\ transceivers[i].sender_track = "None"
                         /\ transceivers'[i].sender_track = pcall'.arg]_vars

\* addTrack bound the microphone to the audio transceiver that the remote
\* offer created
C14_TrackBoundToRemoteTransceiver ==
    /\ pcall.op = "addTrack"
    /\ pcall.result = "ok"
    /\ Len(transceivers) = 1
    /\ transceivers[1].kind = "audio"
    /\ transceivers[1].sender_track = "mic"
    /\ transceivers[1].receiver_track
    /\ ~transceivers[1].t.ice_controlling

\* the preference list restricted to one kind, in list order
PreferredOfKind(kind) == SelectSeq(MEDIA_CODECS, LAMBDA c : c.kind = kind)

\* how many of the first n codecs of a list have no payload type of their own
WithoutPt(codecs, n) == Cardinality({j \in 1..n : codecs[j].pt = NoPt})

RECURSIVE DynamicBefore(_, _)
\* how many dynamic payload types the transceivers before the i-th consume
DynamicBefore(ts, i) ==
    IF i <= 1 THEN 0
    ELSE DynamicBefore(ts, i - 1)
         + WithoutPt(PreferredOfKind(ts[i - 1].kind),
                     Len(PreferredOfKind(ts[i - 1].kind)))

\* the codec list the claim gives the i-th transceiver of ts
OfferedCodecs(ts, i) ==
    LET pref == PreferredOfKind(ts[i].kind)
    IN  [j \in 1..Len(pref) |->
            IF pref[j].pt = NoPt
            THEN [pref[j] EXCEPT !.pt = 96 + DynamicBefore(ts, i)
                                          + WithoutPt(pref, j - 1)]
            ELSE pref[j]]

\* C15: createOffer raises InvalidStateError on a closed connection and
\* InternalError when there is neither a transceiver nor an SCTP transport,
\* writing nothing; otherwise it returns an offer in which every
\* transceiver's codecs are the preference list filtered by its kind, the
\* codecs without payload type numbered consecutively from 96 across the
\* transceivers in list order, the m-line's fmt lists these payload types,
\* no two codecs of the offer share a payload type, and a lone audio
\* transceiver gives fmt 96 0 8.  createOffer never changes signalingState.
C15_CreateOfferCodecs ==
    [][IsCall("createOffer") =>
         /\ signalingState' = signalingState
         /\ isClosed => (pcall'.result = "InvalidStateError" /\ NothingWritten)
         /\ (~isClosed /\ Len(transceivers) = 0 /\ ~sctp.exists)
               => (pcall'.result = "InternalError" /\ NothingWritten)
         /\ (~isClosed /\ (Len(transceivers) > 0 \/ sctp.exists))
               => /\ pcall'.result = "ok"
                  /\ pcall'.sdp.type = "offer"
                  /\ Len(transceivers') = Len(transceivers)
                  /\ \A i \in 1..Len(transceivers) :
                        /\ transceivers'[i].codecs = OfferedCodecs(transceivers, i)
                        /\ pcall'.sdp.media[i].fmt =
                              [j \in 1..Len(transceivers'[i].codecs) |->
                                  transceivers'[i].codecs[j].pt]
                  /\ \A i, k \in 1..Len(transceivers) :
                        \A j \in 1..Len(transceivers'[i].codecs) :
                           \A l \in 1..Len(transceivers'[k].codecs) :
                              <<i, j>> # <<k, l>>
                                 => transceivers'[i].codecs[j].pt
                                       # transceivers'[k].codecs[l].pt
                  /\ (Len(transceivers) = 1 /\ transceivers[1].kind = "audio")
                        => pcall'.sdp.media[1].fmt = <<96, 0, 8>>]_vars

\* an offer for an audio and a video transceiver: opus has 96, VP8 has 97
C15_AudioVideoOffer ==
    /\ pcall.op = "createOffer"
    /\ pcall.result = "ok"
    /\ Len(pcall.sdp.media) = 2
    /\ pcall.sdp.media[1].kind = "audio"
    /\ pcall.sdp.media[1].fmt = <<96, 0, 8>>
    /\ pcall.sdp.media[2].fmt = <<97>>

(***************************************************************************)
(* Claims about codec negotiation.                                         *)
(***************************************************************************)
\* the local codecs that the a=rtpmap line of a remote PT names
MatchingLocal(local, remote, pt) ==
    {j \in 1..Len(local) :
        /\ local[j].kind = remote.kind
        /\ pt \in DOMAIN remote.rtpmap
        /\ <<local[j].name, local[j].clockrate>> = remote.rtpmap[pt]}

\* the list the claim describes: the matching remote PTs in fmt order
ExpectedCommon(local, remote) ==
    LET idx == SelectSeq([k \in 1..Len(remote.fmt) |-> k],
                         LAMBDA k : MatchingLocal(local, remote, remote.fmt[k]) # {})
    IN  [n \in 1..Len(idx) |->
            LET pt == remote.fmt[idx[n]]
                codec == local[Min(MatchingLocal(local, remote, pt))]
            IN  IF pt \in 96..127 THEN [codec EXCEPT !.pt = pt] ELSE codec]

CodecKey(kind, name, clockrate) == <<kind, name, clockrate>>

\* C16 (as claimed): find_common_codecs returns, in the order of the remote
\* fmt list, one entry per remote PT whose rtpmap and kind match a local
\* codec; the (kind, name, clockrate) of the result are those present on
\* both sides; an entry has the remote PT when that is in 96..127 and the
\* local codec's own PT otherwise.
C16_CommonCodecs ==
    pcall.op = "find_common_codecs" =>
        LET local == pcall.arg.local
            remote == pcall.arg.remote
            common == pcall.sdp
        IN  /\ pcall.result = "ok"
            /\ common = ExpectedCommon(local, remote)
            /\ {CodecKey(common[n].kind, common[n].name, common[n].clockrate) :
                    n \in 1..Len(common)}
               = {CodecKey(local[j].kind, local[j].name, local[j].clockrate) :
                    j \in 1..Len(local)}
                 \cap {CodecKey(remote.kind, remote.rtpmap[pt][1], remote.rtpmap[pt][2]) :
                         pt \in DOMAIN remote.rtpmap}

(***************************************************************************)
(* Claims about setRemoteDescription.                                      *)
(***************************************************************************)
\* the description does not parse: an m= line of invalid structure, or an
\* audio/video m= line listing a PT outside 0..255 or a forbidden PT
FailsToParse(d) ==
    \E k \in 1..Len(d.media) :
        \/ d.media[k].kind = ""
        \/ /\ d.media[k].kind \in {"audio", "video"}
           /\ \E j \in 1..Len(d.media[k].fmt) :
                 \/ d.media[k].fmt[j] \notin 0..255
                 \/ d.media[k].fmt[j] \in (1..4) \cup (19..63) \cup (72..76)

\* C17: setRemoteDescription with a description that fails to parse raises
\* and applies nothing: no transceiver or SCTP transport is created, no
\* codec list, candidate list or remote fingerprint is written,
\* signalingState and the remote description stay, and no connect
\* coroutine is scheduled.
C17_ParseFailureAppliesNothing ==
    [][(/\ IsCall("setRemoteDescription")
        /\ pcall'.sdp # NoDescription
        /\ FailsToParse(pcall'.sdp))
          => /\ pcall'.result = "AssertionError"
             /\ NothingWritten]_vars

\* an answer whose second m= line lists the forbidden PT 72 was refused
\* after a local offer; the audio transceiver still has the offered codecs
C17_ForbiddenAnswerRefused ==
    /\ pcall.op = "setRemoteDescription"
    /\ pcall.result = "AssertionError"
    /\ pcall.sdp # NoDescription
    /\ pcall.sdp.type = "answer"
    /\ pcall.sdp.media = <<RemoteAudio, RemoteForbidden>>
    /\ signalingState = "have-local-offer"
    /\ currentRemoteDescription = NoDescription
    /\ Len(transceivers) = 1
    /\ transceivers[1].t.remote_fingerprint = "None"

(***************************************************************************)
(* Claims about the receive path.                                          *)
(***************************************************************************)
\* session s takes the datagram at the head of its receive queue, in the
\* handshake loop or in the receive pump
TakesDatagram(s) ==
    /\ call'.s = s
    /\ \/ call'.op = "run" /\ run_pc[s] = "run"
       \/ call'.op = "connect" /\ connect_pc[s] = "recv"
    /\ rx_queue[s] # <<>>
    /\ rx_queue'[s] = Tail(rx_queue[s])

\* C18 (as claimed): every datagram the receive path takes is handled by
\* its first byte alone.  20..63: it goes to the TLS engine, at most one
\* plaintext is appended to the data channel and the rtp channel is
\* untouched.  128..191: it is unprotected, as SRTCP when its payload type
\* is in the RTCP range and as SRTP otherwise, a packet that unprotects is
\* appended to the rtp channel, and the data channel and the TLS engine are
\* untouched.  Any other datagram: state, closed event, both channels, the
\* TLS engine and the running pump are as before.
C18_DemuxTotality ==
    [][\A s \in Sess : TakesDatagram(s) =>
          LET d == Head(rx_queue[s])
          IN  /\ d.b0 \in 20..63
                   => /\ rtp_queue'[s] = rtp_queue[s]
                      /\ Len(data_queue'[s]) \in {Len(data_queue[s]),
                                                  Len(data_queue[s]) + 1}
                      /\ SubSeq(data_queue'[s], 1, Len(data_queue[s])) = data_queue[s]
              /\ d.b0 \in 128..191
                   => /\ data_queue'[s] = data_queue[s]
                      /\ ssl'[s] = ssl[s]
                      /\ call'.result # "AttributeError"
                      /\ (is_rtcp(d) /\ unprotect_rtcp_ok(srtp[s].rx, d))
                            => rtp_queue'[s] = Append(rtp_queue[s], unprotect_rtcp(d))
                      /\ (~is_rtcp(d) /\ unprotect_ok(srtp[s].rx, d))
                            => rtp_queue'[s] = Append(rtp_queue[s], unprotect(d))
              /\ d.b0 \notin (20..63) \cup (128..191)
                   => /\ state'[s] = state[s]
                      /\ closed'[s] = closed[s]
                      /\ data_queue'[s] = data_queue[s]
                      /\ rtp_queue'[s] = rtp_queue[s]
                      /\ ssl'[s] = ssl[s]
                      /\ run_pc'[s] = run_pc[s]
                      /\ call'.result = "await"]_vars

(***************************************************************************)
(* Claims about the connect coroutine.                                     *)
(***************************************************************************)
\* the transports that come before transport i in the order of
\* __transports: transceivers first, the SCTP transport (0) last
TransportsBefore(ts, i) ==
    IF i = 0 THEN {ts[k].t : k \in 1..Len(ts)}
    ELSE {ts[k].t : k \in 1..(i - 1)}

\* C19 (as claimed): the bring-up starts only when every transport has
\* local and remote candidates; ice.connect() of a transport starts only
\* when the DTLS session of every transport before it in list order is
\* CONNECTED; dtls.connect() of a transport starts only when its own
\* ice.connect() has completed; and the run loops are started and
\* iceConnectionState becomes 'completed' only when the DTLS session of every
\* transceiver and of the SCTP transport is CONNECTED.
C19_BringUpOrdering ==
    [][/\ (bringup_pc.phase = "none" /\ bringup_pc'.phase # "none")
            => LET tr == __transports(transceivers, sctp)
               IN  \A k \in 1..Len(tr) :
                      tr[k].local_candidates /\ tr[k].remote_candidates
       /\ (bringup_pc'.phase = "ice" /\ bringup_pc' # bringup_pc)
            => \A t \in TransportsBefore(transceivers', bringup_pc'.i) :
                  t.dtls = "CONNECTED"
       /\ (bringup_pc'.phase = "dtls" /\ bringup_pc' # bringup_pc)
            => /\ bringup_pc.phase = "ice"
               /\ bringup_pc'.i = bringup_pc.i
               /\ (IF bringup_pc.i = 0 THEN sctp'.t
                   ELSE transceivers'[bringup_pc.i].t).ice = "connected"
       /\ (iceConnectionState' = "completed" /\ iceConnectionState # "completed")
            => LET tr == __transports(transceivers', sctp')
               IN  \A k \in 1..Len(tr) : tr[k].dtls = "CONNECTED"]_vars

\* C20: however many connect coroutines setLocalDescription and
\* setRemoteDescription schedule and however they interleave, the bring-up
\* body is entered at most once (only from iceConnectionState 'new', and a
\* started bring-up is never started over), iceConnection.connect() and
\* dtlsSession.connect() are each called at most once on every transport,
\* and dtlsSession.connect() is entered only on a session in state CLOSED,
\* so its assertion never fails.
C20_SingleBringUp ==
    /\ [](LET tr == __transports(transceivers, sctp)
          IN  /\ \A k \in 1..Len(tr) :
                    tr[k].ice_connects <= 1 /\ tr[k].dtls_connects <= 1
              /\ ~(pcall.op = "__connect" /\ pcall.result = "AssertionError"))
    /\ [][/\ (/\ pcall'.op = "__connect"
              /\ connect_tasks' = connect_tasks - 1
              /\ bringup_pc' # bringup_pc)
                => bringup_pc.phase = "none" /\ iceConnectionState = "new"
          /\ bringup_pc.phase # "none" => bringup_pc'.phase # "none"
          /\ (bringup_pc'.phase = "dtls" /\ bringup_pc' # bringup_pc)
                => Transport(bringup_pc.i).dtls = "CLOSED"]_vars

\* two connect coroutines were scheduled; the first brought the transport
\* up, the second has run and returned without connecting anything
C20_SecondConnectReturned ==
    /\ pcall.op = "__connect"
    /\ pcall.result = "return"
    /\ connect_tasks = 0
    /\ bringup_pc.phase = "done"
    /\ iceConnectionState = "completed"
    /\ Len(transceivers) = 1
    /\ transceivers[1].t.ice_connects = 1
    /\ transceivers[1].t.dtls_connects = 1
    /\ transceivers[1].t.dtls = "CONNECTED"

\* the transports that come after transport i in the order of __transports
LaterTransports(ts, sc, i) ==
    IF i = 0 THEN {}
    ELSE {ts[k].t : k \in (i + 1)..Len(ts)}
         \cup (IF sc.exists THEN {sc.t} ELSE {})

\* lines 336-340 have run: the RTP run loops and the SCTP association and
\* data channel manager were started (in the step that sets 'completed')
RunLoopsStarted == bringup_pc.phase = "done"

\* the connection calls made so far on a transport, and its DTLS state
ConnectCalls(t) == <<t.ice_connects, t.dtls_connects, t.dtls>>

\* C21: when an ice.connect() or dtls.connect() of the bring-up has failed,
\* the transports after the failing one were never connected (no
\* ice.connect(), no dtls.connect(), DTLS session CLOSED), the run loops and
\* the SCTP association were not started, and iceConnectionState is
\* 'checking' or, after close(), 'closed'; from then on no step calls
\* connect() on any transport, old or new, the failed bring-up is never
\* resumed or started again by a connect coroutine that a later
\* setLocalDescription or setRemoteDescription schedules, and only close()
\* changes iceConnectionState, to 'closed'.
C21_FailedBringUpStops ==
    /\ [](bringup_pc.phase = "failed"
            => /\ \A t \in LaterTransports(transceivers, sctp, bringup_pc.i) :
                     t.ice_connects = 0 /\ t.dtls_connects = 0 /\ t.dtls = "CLOSED"
               /\ ~RunLoopsStarted
               /\ iceConnectionState \in {"checking", "closed"})
    /\ [][/\ (bringup_pc.phase \in {"ice", "dtls"} /\ bringup_pc'.phase = "failed")
                => /\ pcall'.result \in {"ConnectionError", "DtlsError"}
                   /\ iceConnectionState' = iceConnectionState
          /\ bringup_pc.phase = "failed"
                => /\ bringup_pc' = bringup_pc
                   /\ iceConnectionState' # "completed"
                   /\ iceConnectionState' # iceConnectionState
                         => (pcall'.op = "close" /\ iceConnectionState' = "closed")
                   /\ \A k \in 1..Len(transceivers') :
                         ConnectCalls(transceivers'[k].t) =
                            IF k <= Len(transceivers)
                            THEN ConnectCalls(transceivers[k].t)
                            ELSE <<0, 0, "CLOSED">>
                   /\ ConnectCalls(sctp'.t) = ConnectCalls(sctp.t)
                   /\ (pcall'.op = "__connect" /\ connect_tasks' = connect_tasks - 1)
                         => pcall'.result = "return"]_vars

\* ice.connect() of the audio transport failed; a connect coroutine scheduled
\* afterwards has run and returned, and the SCTP transport was never
\* connected
C21_LaterConnectReturned ==
    /\ pcall.op = "__connect"
    /\ pcall.result = "return"
    /\ bringup_pc = [phase |-> "failed", i |-> 1]
    /\ iceConnectionState = "checking"
    /\ Len(transceivers) = 1
    /\ transceivers[1].t.ice = "failed"
    /\ sctp.exists
    /\ sctp.t.local_candidates /\ sctp.t.remote_candidates
    /\ sctp.t.ice_connects = 0

(***************************************************************************)
(* Claims about the channels and the teardown.                             *)
(***************************************************************************)
\* the recv of channel ch of session s, suspended before the step, returns
\* or raises in it
RecvEnds(s, ch) ==
    /\ recv_pc[s][ch] = "recv"
    /\ recv_pc'[s][ch] = "idle"

\* C27: a recv that returns a value returns the payload at the head of the
\* channel's queue and removes it, and the queue otherwise only grows at its
\* end, so payloads come out in the order the receive pump enqueued them; a
\* suspended recv stays suspended while the queue is empty and the closed
\* event is not set; a recv that ends without a value raises
\* ConnectionError, the closed event is set and the queue is untouched; and
\* a recv that is suspended when the closed event is set does not stay
\* suspended forever.
C27_ChannelRecvRace ==
    /\ [][\A s \in Sess : \A ch \in Channels :
             /\ RecvEnds(s, ch)
                   => /\ call'.s = s /\ call'.op = RecvOp(ch)
                      /\ call'.result \in {"ok", "ConnectionError"}
                      /\ call'.result = "ok"
                            => /\ ChannelQueue(s, ch) # <<>>
                               /\ call'.value = <<Head(ChannelQueue(s, ch))>>
                               /\ ChannelQueue(s, ch)' = Tail(ChannelQueue(s, ch))
                      /\ call'.result = "ConnectionError"
                            => /\ closed[s]
                               /\ ChannelQueue(s, ch)' = ChannelQueue(s, ch)
             /\ ~RecvEnds(s, ch)
                   => \/ ChannelQueue(s, ch)' = ChannelQueue(s, ch)
                      \/ /\ Len(ChannelQueue(s, ch)') = Len(ChannelQueue(s, ch)) + 1
                         /\ SubSeq(ChannelQueue(s, ch)', 1, Len(ChannelQueue(s, ch)))
                               = ChannelQueue(s, ch)
             /\ (recv_pc[s][ch] = "recv" /\ ChannelQueue(s, ch) = <<>> /\ ~closed[s])
                   => recv_pc'[s][ch] = "recv"]_vars
    /\ \A ch \in Channels :
          (recv_pc[Receiver][ch] = "recv" /\ closed[Receiver])
              ~> (recv_pc[Receiver][ch] = "idle")

\* a data.recv that was waiting on an empty channel has raised
\* ConnectionError after the session was torn down
C27_BlockedRecvReleased ==
    /\ call.op = "data.recv"
    /\ call.result = "ConnectionError"
    /\ data_queue[call.s] = <<>>
    /\ closed[call.s]
    /\ state[call.s] = "CLOSED"
    /\ run_pc[call.s] = "done"

\* the terminal state of the funnel: the receive pump has ended, the state
\* is CLOSED and the closed event is set
TornDown(s) == run_pc[s] = "done" /\ state[s] = "CLOSED" /\ closed[s]

\* C22 (as claimed): for a session whose receive pump runs, (a) a
\* close_notify record waiting on its transport, (b) its transport failing,
\* and (c) a close() that returned on it while CONNECTED each lead to the
\* pump having ended with state CLOSED and the closed event set; the pump
\* ends in the very step in which the TLS read returns 0; once torn down the
\* session stays CLOSED with the event set forever; and every data.recv or
\* rtp.recv suspended when the event is set is released.
C22_TeardownFunnel ==
    /\ \A s \in Sess :
          /\ (run_pc[s] = "run" /\ \E k \in 1..Len(rx_queue[s]) :
                                      rx_queue[s][k] = CloseNotify) ~> TornDown(s)
          /\ (run_pc[s] = "run" /\ transport_closed[s]) ~> TornDown(s)
          /\ closes[s] > 0 ~> TornDown(s)
          /\ \A ch \in Channels :
                (closed[s] /\ recv_pc[s][ch] = "recv") ~> (recv_pc[s][ch] = "idle")
    /\ [][\A s \in Sess :
             /\ (/\ call'.op = "run" /\ call'.s = s /\ run_pc[s] = "run"
                 /\ rx_queue[s] # <<>> /\ rx_queue'[s] = Tail(rx_queue[s])
                 /\ Head(rx_queue[s]) = CloseNotify)
                   => TornDown(s)'
             /\ TornDown(s) => (state'[s] = "CLOSED" /\ closed'[s])]_vars

(***************************************************************************)
(* Claims about the fingerprint check and the SRTP keys.                   *)
(***************************************************************************)
\* two fingerprints are equal when case is ignored
SameFingerprint(a, b) == LowerCase(a) = LowerCase(b)

\* the fingerprint of the certificate the peer presented to session s
PresentedFingerprint(s) == certificate_digest(ssl[s].peer)

\* C23: a session is CONNECTED, has SRTP keys or has had a receive pump only
\* if its TLS handshake completed and the fingerprint of the certificate the
\* peer presented equals its remote_fingerprint, case ignored.  The state
\* becomes CONNECTED, the keys are installed and the pump is started only in
\* a step of connect() that returns normally, all three together; a
\* connect() that ends after the handshake has completed returns normally
\* exactly when the fingerprints are equal, case ignored, and otherwise
\* raises DtlsError with no keys installed and no pump started by it.
C23_FingerprintGate ==
    /\ [](\A s \in Sess :
             (state[s] = "CONNECTED" \/ srtp[s].installed \/ run_pc[s] # "none")
                => /\ encrypted[s]
                   /\ ssl[s].peer # 0
                   /\ SameFingerprint(PresentedFingerprint(s), remote_fingerprint[s]))
    /\ [][\A s \in Sess :
             /\ (\/ state'[s] = "CONNECTED" /\ state[s] # "CONNECTED"
                 \/ srtp'[s] # srtp[s]
                 \/ run_pc'[s] = "run" /\ run_pc[s] # "run")
                   => /\ call'.op = "connect" /\ call'.s = s /\ call'.result = "ok"
                      /\ state'[s] = "CONNECTED"
                      /\ srtp'[s].installed
                      /\ run_pc'[s] = "run"
             /\ (/\ call'.op = "connect" /\ call'.s = s
                 /\ connect_pc'[s] = "idle"
                 /\ call'.result \notin {"AssertionError", "ConnectionError"}
                 /\ encrypted'[s])
                   => IF SameFingerprint(certificate_digest(ssl'[s].peer),
                                         remote_fingerprint[s])
                      THEN call'.result = "ok"
                      ELSE /\ call'.result = "DtlsError"
                           /\ state'[s] # "CONNECTED"
                           /\ srtp'[s] = srtp[s]
                           /\ run_pc'[s] = run_pc[s]]_vars

\* the client was given the server's fingerprint in lower case and is
\* CONNECTED with its keys installed and its pump started
C23_LowerCaseAccepted ==
    /\ remote_fingerprint[2] = "aa:01"
    /\ call.op = "connect" /\ call.s = 2 /\ call.result = "ok"
    /\ state[2] = "CONNECTED"
    /\ srtp[2].installed
    /\ run_pc[2] = "run"

\* bytes [a, b) of a block, counted from 0
Bytes(src, a, b) == [j \in 1..(b - a) |-> src[a + j]]

\* C24: on a 60-byte block get_srtp_key_salt(block, idx) returns the 30
\* bytes [16*idx, 16*idx+16) followed by [32+14*idx, 32+14*idx+14); the
\* server's outbound key is that of index 1 (server write key and salt) and
\* its inbound key that of index 0 (client write key and salt), the client's
\* the other way round; so each side's outbound key equals the other side's
\* inbound key.
C24_SrtpKeyAssignment ==
    /\ pcall.op = "get_srtp_key_salt"
          => LET src == pcall.arg.src
                 idx == pcall.arg.idx
             IN  /\ Len(src) = 60
                 /\ Len(pcall.sdp) = 30
                 /\ pcall.sdp = Bytes(src, 16 * idx, 16 * idx + 16)
                                \o Bytes(src, 32 + 14 * idx, 32 + 14 * idx + 14)
    /\ pcall.op = "export_keying_material"
          => LET view == pcall.arg
                 client_write == Bytes(view, 0, 16) \o Bytes(view, 32, 46)
                 server_write == Bytes(view, 16, 32) \o Bytes(view, 46, 60)
             IN  /\ pcall.sdp.server.tx = server_write
                 /\ pcall.sdp.server.rx = client_write
                 /\ pcall.sdp.client.tx = client_write
                 /\ pcall.sdp.client.rx = server_write
                 /\ pcall.sdp.server.tx = pcall.sdp.client.rx
                 /\ pcall.sdp.client.tx = pcall.sdp.server.rx
                 /\ pcall.sdp.server.tx # pcall.sdp.server.rx

\* the keys derived from the block 0, 1, ..., 59: the server sends with
\* bytes 16..31 and 46..59
C24_ServerKeyFromCountingBlock ==
    /\ pcall.op = "export_keying_material"
    /\ pcall.arg = [i \in 1..60 |-> i - 1]
    /\ pcall.sdp.server.tx = [j \in 1..30 |-> IF j <= 16 THEN 15 + j ELSE 29 + j]
    /\ pcall.sdp.client.rx = pcall.sdp.server.tx

(***************************************************************************)
(* Claims about the negotiated codecs.                                     *)
(***************************************************************************)
\* the stored remote description is an offer and every transceiver named by
\* one of its audio or video m= lines holds the intersection of the local
\* preference list with that line
NegotiatedWithOffer ==
    /\ currentRemoteDescription.type = "offer"
    /\ \A k \in 1..Len(currentRemoteDescription.media) :
          currentRemoteDescription.media[k].kind \in {"audio", "video"}
             => \E i \in 1..Len(transceivers) :
                   /\ transceivers[i].kind = currentRemoteDescription.media[k].kind
                   /\ transceivers[i].codecs =
                         ExpectedCommon(MEDIA_CODECS,
                                        currentRemoteDescription.media[k])

\* C25 (as claimed): a successful setRemoteDescription(offer) leaves every
\* transceiver of the offer with the intersection, by (kind, name,
\* clockrate), of the local preference list with the offer, dynamic entries
\* carrying the remote payload type; no createOffer, createAnswer or
\* setLocalDescription made afterwards changes that; and a createAnswer
\* made afterwards lists exactly these payload types.
C25_AnswererCodecs ==
    [][/\ (/\ IsCall("setRemoteDescription")
           /\ pcall'.arg = "offer"
           /\ pcall'.result = "ok")
             => NegotiatedWithOffer'
       /\ (/\ NegotiatedWithOffer
           /\ pcall'.op \in {"createOffer", "createAnswer", "setLocalDescription"})
             => NegotiatedWithOffer'
       /\ (/\ NegotiatedWithOffer
           /\ IsCall("createAnswer")
           /\ pcall'.result = "ok")
             => \A k \in 1..Len(currentRemoteDescription.media) :
                   currentRemoteDescription.media[k].kind \in {"audio", "video"}
                      => \E i \in 1..Len(transceivers) :
                            /\ pcall'.sdp.media[i].kind =
                                  currentRemoteDescription.media[k].kind
                            /\ LET common ==
                                      ExpectedCommon(MEDIA_CODECS,
                                                     currentRemoteDescription.media[k])
                               IN  pcall'.sdp.media[i].fmt =
                                      [j \in 1..Len(common) |-> common[j].pt]]_vars

(***************************************************************************)
(* Claims about candidate gathering.                                       *)
(***************************************************************************)
GatheringRank(g) == IF g = "new" THEN 0 ELSE IF g = "gathering" THEN 1 ELSE 2

\* the number of gather_candidates() calls made on each ICE connection
GatherCounts(ts, sc) ==
    [i \in 1..Len(ts) |-> ts[i].t.gathers] \o <<sc.t.gathers>>

\* C26: iceGatheringState only moves forward along new, gathering, complete
\* (the pass over an empty transport list sets both values without an await
\* in between); gather_candidates() is called at most once on any ICE
\* connection, only by the setLocalDescription that runs the gathering pass
\* and only while the state is 'gathering'; a setLocalDescription that finds
\* the state other than 'new' calls it on nothing.
C26_GatheringOneShot ==
    /\ [](/\ \A i \in 1..Len(transceivers) : transceivers[i].t.gathers <= 1
          /\ sctp.t.gathers <= 1
          /\ gather_pc.phase = "gather" => iceGatheringState = "gathering")
    /\ [][/\ GatheringRank(iceGatheringState') >= GatheringRank(iceGatheringState)
          /\ (\E i \in 1..Len(transceivers) :
                 transceivers'[i].t.gathers # transceivers[i].t.gathers)
               => (/\ iceGatheringState' = "gathering"
                   /\ pcall'.op = "setLocalDescription"
                   /\ pcall'.result = "await")
          /\ sctp'.t.gathers # sctp.t.gathers
               => (/\ iceGatheringState' = "gathering"
                   /\ pcall'.op = "setLocalDescription"
                   /\ pcall'.result = "await")
          /\ (IsCall("setLocalDescription") /\ iceGatheringState # "new")
               => /\ iceGatheringState' = iceGatheringState
                  /\ GatherCounts(transceivers', sctp') =
                        GatherCounts(transceivers, sctp)]_vars

\* C26 witness: a second setLocalDescription has returned while the first
\* one is still suspended in the gathering pass
C26_ConcurrentSetLocal ==
    /\ gather_pc.phase = "gather"
    /\ iceGatheringState = "gathering"
    /\ pcall.op = "setLocalDescription"
    /\ pcall.result = "ok"
    /\ \E i \in 1..Len(transceivers) : transceivers[i].t.gathers = 1

(***************************************************************************)
(* Claims about the order of RTCPeerConnection.close().                    *)
(***************************************************************************)
\* the transport at position i of the next state (0 is the SCTP transport)
TransportNext(i) == IF i = 0 THEN sctp'.t ELSE transceivers'[i].t

\* close() moves to another awaited call
ClosePcMoves == close_pc' # close_pc

C29_StoredCodecsHavePt ==
    /\ [](\A i \in 1..Len(transceivers) :
             \A j \in 1..Len(transceivers[i].codecs) :
                 /\ transceivers[i].codecs[j].pt # NoPt
                 /\ transceivers[i].codecs[j].pt \in 0..127)
    /\ [][pcall'.result # "TypeError"]_vars

(***************************************************************************)
(* Claims about failures while a remote description is applied.            *)
(***************************************************************************)
\* C30 (as claimed): a setRemoteDescription that raises while applying a
\* parsed description (KeyError for a format without rtpmap entry,
\* AssertionError for an m= line without a common codec) has added no
\* transceiver and no SCTP transport, changed no codec list, remote
\* candidate or fingerprint, created no remote track, scheduled no connect,
\* and left signalingState and the remote description as they were.
C30_ApplyFailureAppliesNothing ==
    [][(/\ IsCall("setRemoteDescription")
        /\ pcall'.result \in {"KeyError", "AssertionError"})
          => UNCHANGED <<transceivers, sctp, signalingState,
                         currentRemoteDescription, connect_tasks>>]_vars

(***************************************************************************)
(* Claims about what a returned setLocalDescription has gathered.          *)
(***************************************************************************)
\* a setLocalDescription call returns in this step: one that did not wait,
\* or the one that was suspended in the gathering pass
SetLocalReturns ==
    /\ pcall'.op = "setLocalDescription"
    /\ pcall'.result = "ok"
    /\ \/ IsCall("setLocalDescription")
       \/ gather_pc.phase = "gather" /\ gather_pc'.phase = "idle"

\* C31 (as claimed): when a setLocalDescription call returns,
\* iceGatheringState is 'complete'; for a call that returns without having
\* waited, every transport that existed when it was made has local
\* candidates and the stored local description lists candidates in its m=
\* section; for the call that ran the gathering pass, every transport the
\* pass visited has them.
C31_SetLocalGathersAll ==
    [][SetLocalReturns =>
          /\ iceGatheringState' = "complete"
          /\ IsCall("setLocalDescription") =>
                /\ \A i \in 1..Len(transceivers) :
                      /\ transceivers'[i].t.local_candidates
                      /\ currentLocalDescription'.media[i].candidates
                /\ sctp.exists =>
                      /\ sctp'.t.local_candidates
                      /\ currentLocalDescription'.media[
                            Len(currentLocalDescription'.media)].candidates
          /\ \A i \in 1..Len(transceivers') :
                transceivers'[i].t.gathers > 0 =>
                   /\ transceivers'[i].t.local_candidates
                   /\ currentLocalDescription'.media[i].candidates]_vars

=============================================================================
